---------------------------- MODULE Spec2Model ----------------------------
(***************************************************************************)
(* TCK compliance tooling of extensions/sqlite_graph.                      *)
(*                                                                         *)
(* scripts/update_compliance.py: calculate_compliance, update_statistics   *)
(* and main (read coverage.json, recompute the statistics block, write     *)
(* coverage.json back, print the report).                                  *)
(*                                                                         *)
(* parse_tck_scenarios.py: parse_feature_file, determine_language_area,    *)
(* check_requires_runtime and main (walk the corpus, parse every feature   *)
(* document, group the scenarios, write the JSON and the CSV manifest).    *)
(*                                                                         *)
(* scripts/demo_coverage_system.py: main (run update_compliance.py, read   *)
(* coverage.json, print the samples, the status and the high-priority      *)
(* list).                                                                  *)
(*                                                                         *)
(* sqlite-utils-plugin/sqlite_utils_sqlite_graph.py: prepare_connection.   *)
(***************************************************************************)
EXTENDS Integers, Sequences, FiniteSets, TLC

(***************************************************************************)
(* Bounds of the model.                                                    *)
(***************************************************************************)
\* longest `scenarios` list of a plain ledger handed to update_statistics
MaxEntries == 4
\* longest `scenarios` list of a ledger that also varies its shape (stale
\* statistics, extra keys, entries that are not objects) and of a ledger file
MaxFileEntries == 2

(***************************************************************************)
(* JSON values.                                                            *)
(*                                                                         *)
(* A JSON object that the code only passes around (a scenario entry, a     *)
(* statistics block) is a TLA+ record over the keys it has.  A JSON value   *)
(* that is not an object is the record [scalar |-> v].  The top-level      *)
(* object keeps its key order, as a Python dict does: it is a sequence of  *)
(* <<key, value>> pairs without repeated keys.                             *)
(***************************************************************************)
IsDict(v) == "scalar" \notin DOMAIN v

\* dict.get(key, default) of an object held as a record
Get(d, key, default) == IF key \in DOMAIN d THEN d[key] ELSE default

DictKeys(items) == {items[i][1] : i \in 1..Len(items)}

DictHas(items, key) == key \in DictKeys(items)

\* dict.get(key, default) of the top-level object
DictGet(items, key, default) ==
    IF DictHas(items, key)
    THEN items[CHOOSE i \in 1..Len(items) : items[i][1] = key][2]
    ELSE default

\* d[key] = value: an existing key keeps its place, a new key goes last
DictSet(items, key, value) ==
    IF DictHas(items, key)
    THEN [i \in 1..Len(items) |->
            IF items[i][1] = key THEN <<key, value>> ELSE items[i]]
    ELSE Append(items, <<key, value>>)

\* the items of the top-level object other than `key`, in order
DictWithout(items, key) == SelectSeq(items, LAMBDA it : it[1] # key)

(***************************************************************************)
(* Python floats: IEEE-754 binary64, round to nearest, ties to even.       *)
(*                                                                         *)
(* A positive double is [mant, exp]: mant is its 53-bit significand, most  *)
(* significant bit first and equal to 1, and its value is mant * 2^exp.    *)
(* 0.0 is the empty significand.  Natural numbers of any size are bit      *)
(* sequences, most significant bit first; arithmetic on them goes through  *)
(* 16-bit limbs.                                                           *)
(***************************************************************************)
PrecBits == 53

Zero == [mant |-> <<>>, exp |-> 0]

LimbBits == 4 * 4
LimbBase == 2 ^ LimbBits

Zeros(k) == [i \in 1..k |-> 0]

RECURSIVE NatBits(_)
NatBits(n) == IF n = 0 THEN <<>> ELSE Append(NatBits(n \div 2), n % 2)

StripZeros(b) ==
    IF \A i \in 1..Len(b) : b[i] = 0 THEN <<>>
    ELSE LET j == CHOOSE j \in 1..Len(b) :
                      b[j] = 1 /\ \A k \in 1..(j - 1) : b[k] = 0
         IN  SubSeq(b, j, Len(b))

\* the value of the bits b[lo..lo+n-1]
RECURSIVE BitsVal(_, _, _)
BitsVal(b, lo, n) ==
    IF n = 0 THEN 0 ELSE 2 * BitsVal(b, lo, n - 1) + b[lo + n - 1]

\* the limbs of b, most significant first
Limbs(b) ==
    LET n      == (Len(b) + LimbBits - 1) \div LimbBits
        padded == Zeros(n * LimbBits - Len(b)) \o b
    IN  [j \in 1..n |-> BitsVal(padded, (j - 1) * LimbBits + 1, LimbBits)]

\* the bits of a sequence of limbs
LimbsToBits(l) ==
    [i \in 1..(Len(l) * LimbBits) |->
        (l[(i - 1) \div LimbBits + 1]
            \div (2 ^ (LimbBits - 1 - ((i - 1) % LimbBits)))) % 2]

\* the limbs of value(l[1..j]) * c + carry
RECURSIVE MulAcc(_, _, _, _)
MulAcc(l, j, c, carry) ==
    IF j = 0 THEN <<carry>>
    ELSE LET v == l[j] * c + carry
         IN  Append(MulAcc(l, j - 1, c, v \div LimbBase), v % LimbBase)

\* the bits of value(b) * c, for 0 <= c < 2^14
MulSmall(b, c) ==
    LET l == Limbs(b) IN StripZeros(LimbsToBits(MulAcc(l, Len(l), c, 0)))

\* value(b) + 1, one bit longer when every bit of b is 1
Inc(b) ==
    IF \A i \in 1..Len(b) : b[i] = 1 THEN <<1>> \o Zeros(Len(b))
    ELSE LET j == CHOOSE j \in 1..Len(b) :
                      b[j] = 0 /\ \A k \in (j + 1)..Len(b) : b[k] = 1
         IN  [i \in 1..Len(b) |-> IF i < j THEN b[i] ELSE IF i = j THEN 1 ELSE 0]

\* The double nearest to value(p) * 2^e (+ a nonzero tail below the last bit
\* of p when `sticky`); p has no leading zero.
RoundToDouble(p, e, sticky) ==
    IF p = <<>> THEN Zero
    ELSE IF Len(p) <= PrecBits
    THEN [mant |-> p \o Zeros(PrecBits - Len(p)), exp |-> e - (PrecBits - Len(p))]
    ELSE LET keep  == SubSeq(p, 1, PrecBits)
             guard == p[PrecBits + 1]
             rest  == sticky \/ \E i \in (PrecBits + 2)..Len(p) : p[i] = 1
             up    == guard = 1 /\ (rest \/ keep[PrecBits] = 1)
             e2    == e + (Len(p) - PrecBits)
             m     == IF up THEN Inc(keep) ELSE keep
         IN  IF Len(m) > PrecBits
             THEN [mant |-> SubSeq(m, 1, PrecBits), exp |-> e2 + 1]
             ELSE [mant |-> m, exp |-> e2]

\* n limbs of the fraction r / t (r < t < 2^15) and the remainder left
RECURSIVE FracDiv(_, _, _)
FracDiv(r, t, n) ==
    IF n = 0 THEN [limbs |-> <<>>, rem |-> r]
    ELSE LET rest == FracDiv((r * LimbBase) % t, t, n - 1)
         IN  [limbs |-> <<(r * LimbBase) \div t>> \o rest.limbs, rem |-> rest.rem]

\* int / int of Python (true division) for p >= 0 and 0 < t < 2^15: the
\* double nearest to the quotient
TrueDiv(p, t) ==
    LET n == 5
        f == FracDiv(p % t, t, n)
    IN  RoundToDouble(StripZeros(NatBits(p \div t) \o LimbsToBits(f.limbs)),
                      0 - n * LimbBits, f.rem # 0)

\* float * float of Python where the right operand is the whole number c,
\* 0 < c < 2^14: the exact product, rounded once
FloatMul(x, c) ==
    IF x = Zero THEN Zero ELSE RoundToDouble(MulSmall(x.mant, c), x.exp, FALSE)

\* float(n) for a natural number n below 2^31
IntToFloat(n) == RoundToDouble(NatBits(n), 0, FALSE)

(***************************************************************************)
(* The ledger: scenario entries and statistics blocks the model draws from. *)
(***************************************************************************)
\* scenario entries that are JSON objects: the four statuses of the ledger,
\* an unrecognised status beside an extra field, and an entry with no status
PlainEntries ==
    { [status |-> "pass"], [status |-> "fail"], [status |-> "skip"],
      [status |-> "pending"],
      [status |-> "blocked", priority |-> "high"],
      [scenario_id |-> "S1"] }

\* a `scenarios` element that is not a JSON object (the number 7)
NotAnObject == [scalar |-> 7]

AnyEntries == PlainEntries \cup {NotAnObject}

SeqsUpTo(S, n) == UNION {[1..k -> S] : k \in 0..n}

\* a statistics block left in the ledger by hand or by an earlier run
StaleStats ==
    [total_scenarios |-> 9, passed |-> 9, failed |-> 0, skipped |-> 0,
     pending |-> 0, compliance_percentage |-> IntToFloat(100),
     note |-> "hand-edited"]

\* top-level objects: `scenarios` alone; stale statistics, `scenarios` and
\* an unrecognised key; no `scenarios` key, with or without statistics
PlainLedgers ==
    { << <<"scenarios", S>> >> : S \in SeqsUpTo(PlainEntries, MaxEntries) }

ShapedLedgers ==
    { << <<"statistics", StaleStats>>, <<"scenarios", S>>, <<"source", "tck">> >> :
         S \in SeqsUpTo(AnyEntries, MaxFileEntries) }
    \cup { << <<"scenarios", S>> >> : S \in SeqsUpTo(AnyEntries, MaxFileEntries) }
    \cup { <<>>, << <<"statistics", StaleStats>> >> }

\* a value bound to a Python name: a dict (the top-level object), another
\* JSON value, or nothing yet
Dict(items) == [kind |-> "dict", items |-> items]
Unbound == [kind |-> "unbound", items |-> <<>>]

(***************************************************************************)
(* calculate_compliance and update_statistics.                             *)
(***************************************************************************)
\* calculate_compliance reporting full compliance for an empty ledger
calculate_compliance_full_when_empty(items) ==
    LET stats  == DictGet(items, "statistics", [x \in {} |-> 0])
        total  == Get(stats, "total_scenarios", 0)
        passed == Get(stats, "passed", 0)
    IN  IF total = 0 THEN IntToFloat(100) ELSE FloatMul(TrueDiv(passed, total), 100)

\* calculate_compliance returning the fraction passed / total, not the percentage
calculate_compliance_fraction(items) ==
    LET stats  == DictGet(items, "statistics", [x \in {} |-> 0])
        total  == Get(stats, "total_scenarios", 0)
        passed == Get(stats, "passed", 0)
    IN  IF total = 0 THEN Zero ELSE TrueDiv(passed, total)

\* calculate_compliance over the scenarios that were decided (passed or
\* failed), not over all of them
calculate_compliance_of_decided(items) ==
    LET stats  == DictGet(items, "statistics", [x \in {} |-> 0])
        passed == Get(stats, "passed", 0)
        total  == passed + Get(stats, "failed", 0)
    IN  IF total = 0 THEN Zero ELSE FloatMul(TrueDiv(passed, total), 100)

\* calculate_compliance(coverage_data), coverage_data given by its items
calculate_compliance(items) ==
    LET stats  == DictGet(items, "statistics", [x \in {} |-> 0])
        total  == Get(stats, "total_scenarios", 0)
        passed == Get(stats, "passed", 0)
    IN  IF total = 0 THEN Zero ELSE FloatMul(TrueDiv(passed, total), 100)

\* the loop body without its final else: an unrecognised status counts nowhere
CountStatusNoElse(stats, scenario) ==
    LET status == Get(scenario, "status", "pending")
    IN  IF status = "pass" THEN [stats EXCEPT !.passed = @ + 1]
        ELSE IF status = "fail" THEN [stats EXCEPT !.failed = @ + 1]
        ELSE IF status = "skip" THEN [stats EXCEPT !.skipped = @ + 1]
        ELSE IF status = "pending" THEN [stats EXCEPT !.pending = @ + 1]
        ELSE stats

\* the loop body without its `skip` branch: a skipped scenario counts as pending
CountStatusNoSkip(stats, scenario) ==
    LET status == Get(scenario, "status", "pending")
    IN  IF status = "pass" THEN [stats EXCEPT !.passed = @ + 1]
        ELSE IF status = "fail" THEN [stats EXCEPT !.failed = @ + 1]
        ELSE [stats EXCEPT !.pending = @ + 1]

\* one turn of the loop over the scenarios: the branch on the entry's status
CountStatus(stats, scenario) ==
    LET status == Get(scenario, "status", "pending")
    IN  IF status = "pass" THEN [stats EXCEPT !.passed = @ + 1]
        ELSE IF status = "fail" THEN [stats EXCEPT !.failed = @ + 1]
        ELSE IF status = "skip" THEN [stats EXCEPT !.skipped = @ + 1]
        ELSE [stats EXCEPT !.pending = @ + 1]

RECURSIVE CountLoop(_, _, _)
CountLoop(scenarios, i, stats) ==
    IF i > Len(scenarios) THEN stats
    ELSE CountLoop(scenarios, i + 1, CountStatus(stats, scenarios[i]))

\* scenario.get raises AttributeError on an entry that is not an object
update_statistics_raises(items) ==
    LET scenarios == DictGet(items, "scenarios", <<>>)
    IN  \E i \in 1..Len(scenarios) : ~IsDict(scenarios[i])

\* the statistics block when the counters start from the block already in the
\* ledger instead of from zero
NewStatsAccumulating(items) ==
    LET scenarios == DictGet(items, "scenarios", <<>>)
        old       == DictGet(items, "statistics", [x \in {} |-> 0])
        counted   == CountLoop(scenarios, 1,
                        [total_scenarios |-> Len(scenarios),
                         passed  |-> Get(old, "passed", 0),
                         failed  |-> Get(old, "failed", 0),
                         skipped |-> Get(old, "skipped", 0),
                         pending |-> Get(old, "pending", 0)])
    IN  [total_scenarios       |-> counted.total_scenarios,
         passed                |-> counted.passed,
         failed                |-> counted.failed,
         skipped               |-> counted.skipped,
         pending               |-> counted.pending,
         compliance_percentage |->
             calculate_compliance(<< <<"statistics", counted>> >>)]

\* the statistics block when the new values are written over the block
\* already in the ledger (stats = dict(old); stats.update(...)): a key of the
\* old block that the new values do not have stays
NewStatsOverOld(items) ==
    LET scenarios == DictGet(items, "scenarios", <<>>)
        old       == DictGet(items, "statistics", [x \in {} |-> 0])
        counted   == CountLoop(scenarios, 1,
                        [total_scenarios |-> Len(scenarios), passed |-> 0,
                         failed |-> 0, skipped |-> 0, pending |-> 0])
        new       == [total_scenarios       |-> counted.total_scenarios,
                      passed                |-> counted.passed,
                      failed                |-> counted.failed,
                      skipped               |-> counted.skipped,
                      pending               |-> counted.pending,
                      compliance_percentage |->
                          calculate_compliance(<< <<"statistics", counted>> >>)]
    IN  [k \in DOMAIN new \cup (IF IsDict(old) THEN DOMAIN old ELSE {}) |->
            IF k \in DOMAIN new THEN new[k] ELSE old[k]]

\* the statistics block update_statistics builds
NewStats(items) ==
    LET scenarios == DictGet(items, "scenarios", <<>>)
        counted   == CountLoop(scenarios, 1,
                        [total_scenarios |-> Len(scenarios), passed |-> 0,
                         failed |-> 0, skipped |-> 0, pending |-> 0])
    IN  [total_scenarios       |-> counted.total_scenarios,
         passed                |-> counted.passed,
         failed                |-> counted.failed,
         skipped               |-> counted.skipped,
         pending               |-> counted.pending,
         compliance_percentage |->
             calculate_compliance(<< <<"statistics", counted>> >>)]

\* update_statistics that also writes the default status into every entry
\* that has none (scenario.setdefault('status', 'pending'))
update_statistics_filling_status(items) ==
    LET scenarios == DictGet(items, "scenarios", <<>>)
        filled    == [i \in 1..Len(scenarios) |->
                        IF "status" \in DOMAIN scenarios[i] THEN scenarios[i]
                        ELSE [f \in DOMAIN scenarios[i] \cup {"status"} |->
                                 IF f = "status" THEN "pending" ELSE scenarios[i][f]]]
    IN  DictSet(IF DictHas(items, "scenarios")
                THEN DictSet(items, "scenarios", filled) ELSE items,
                "statistics", NewStats(items))

\* update_statistics(coverage_data): the items of coverage_data afterwards
update_statistics(items) == DictSet(items, "statistics", NewStats(items))

(***************************************************************************)
(* coverage.json on disk.                                                  *)
(*                                                                         *)
(* The file is what has been written of it so far: a sequence of chunks.   *)
(* json.dump writes the top-level object as an opening brace, one chunk    *)
(* per item in key order, and a closing brace; every proper prefix of that *)
(* is text json.load rejects.                                              *)
(***************************************************************************)
NoFile == [exists |-> FALSE, chunks |-> <<>>]

FileOf(chunks) == [exists |-> TRUE, chunks |-> chunks]

OpenBrace == [tok |-> "{"]
CloseBrace == [tok |-> "}"]
ItemChunk(item) == [tok |-> "item", key |-> item[1], val |-> item[2]]
\* the whole text of a document that is a JSON array, not an object
ArrayText == [tok |-> "[]"]

\* json.dump(coverage_data, f, indent=2): the chunks written, in order
Dump(items) ==
    <<OpenBrace>> \o [i \in 1..Len(items) |-> ItemChunk(items[i])] \o <<CloseBrace>>

IsObjectText(chunks) ==
    /\ Len(chunks) >= 2
    /\ chunks[1] = OpenBrace
    /\ chunks[Len(chunks)] = CloseBrace
    /\ \A i \in 2..(Len(chunks) - 1) : chunks[i].tok = "item"

\* a load that takes a missing file for an empty ledger and raises only on
\* text that is not JSON
load_raises_unless_missing(f) ==
    f.exists /\ ~(IsObjectText(f.chunks) \/ f.chunks = <<ArrayText>>)

\* open('coverage.json', 'r') raises FileNotFoundError, or json.load raises
\* JSONDecodeError
load_raises(f) ==
    \/ ~f.exists
    \/ ~(IsObjectText(f.chunks) \/ f.chunks = <<ArrayText>>)

\* json.load(f) of a file it accepts
Load(f) ==
    IF f.chunks = <<ArrayText>> THEN [kind |-> "list", items |-> <<>>]
    ELSE Dict([i \in 1..(Len(f.chunks) - 2) |->
                  <<f.chunks[i + 1].key, f.chunks[i + 1].val>>])

\* the files an invocation of main may find: none, an empty one, one cut
\* short, a JSON array, and every ledger of ShapedLedgers
InitialFiles ==
    { NoFile, FileOf(<<>>), FileOf(<<OpenBrace>>), FileOf(<<ArrayText>>) }
    \cup { FileOf(Dump(items)) : items \in ShapedLedgers }

(***************************************************************************)
(* State.                                                                  *)
(***************************************************************************)
VARIABLES
    file,           \* coverage.json on disk
    pc,             \* where main (or the caller of update_statistics) is
    coverage_data,  \* the local coverage_data
    written,        \* chunks json.dump has written to the open file
    exit_code,      \* -1 while running, then the process's exit status
    stdout,         \* the statistics block of the printed report, if any
    stderr,         \* the error message printed, if any
    raised_in,      \* the step of main that raised: none, load, compute, open, dump
    opened_w,       \* whether coverage.json was ever opened for writing
    file0,          \* coverage.json when the invocation started
    cd0,            \* coverage_data as passed to the first update_statistics
    runner          \* the external test-runner's write, if it made one

\* the state of parse_tck_scenarios.py
VARIABLES
    corpus,         \* the corpus root: whether it exists, and its files
    dir_stack,      \* directories os.walk has still to yield, innermost last
    cur_files,      \* files of the yielded directory the loop has not reached
    walked,         \* relative paths of the files visited so far, in order
    parsed,         \* what parse_feature_file returned
    all_scenarios,  \* the local all_scenarios of main
    summary,        \* the local summary of main
    manifest_json,  \* tck_scenarios_manifest.json on disk
    manifest_csv,   \* tck_scenarios_manifest.csv on disk
    run,            \* how many times the manifest builder has been started
    prev_json,      \* tck_scenarios_manifest.json as the previous run left it
    prev_csv,       \* tck_scenarios_manifest.csv as the previous run left it
    prev_corpus     \* the corpus as the previous run found it

\* the state of demo_coverage_system.py
VARIABLES
    demo_pc,        \* where main of the demo is
    coverage,       \* the local coverage of the demo's main
    high_priority_pending   \* the local high_priority_pending, once built

\* the state of prepare_connection of the sqlite-utils plugin
VARIABLES
    present,        \* the candidate paths that exist
    loadable,       \* the candidate paths whose load succeeds
    path_index,     \* the place of the loop in extension_paths
    loaded,         \* the paths conn.load_extension has loaded, in order
    tried,          \* the paths handed to conn.load_extension, in order
    warned          \* whether the warning was echoed

ledgerVars == <<file, coverage_data, written, stderr, raised_in, opened_w,
                file0, cd0, runner>>

tckVars == <<corpus, dir_stack, cur_files, walked, parsed, all_scenarios,
             summary, manifest_json, manifest_csv, run, prev_json, prev_csv,
             prev_corpus>>

demoVars == <<demo_pc, coverage, high_priority_pending>>

pluginVars == <<present, loadable, path_index, loaded, tried, warned>>

vars == <<file, pc, coverage_data, written, exit_code, stdout, stderr,
          raised_in, opened_w, file0, cd0, runner, tckVars, demoVars,
          pluginVars>>

NoWrite == [wrote |-> FALSE, index |-> 0, status |-> ""]

\* a manifest file that does not exist, and main's summary before it is built
NoManifest == [exists |-> FALSE]
NoSummary == [built |-> FALSE]

\* the demo is not running
DemoIdle ==
    /\ demo_pc = "idle"
    /\ coverage = Unbound
    /\ high_priority_pending = <<>>

\* prepare_connection is not running
PluginIdle ==
    /\ present = {}
    /\ loadable = {}
    /\ path_index = 0
    /\ loaded = <<>>
    /\ tried = <<>>
    /\ warned = FALSE

\* update_compliance.py is not running
LedgerIdle ==
    /\ file = NoFile
    /\ file0 = NoFile
    /\ coverage_data = Unbound
    /\ cd0 = Unbound
    /\ written = 0
    /\ stderr = ""
    /\ raised_in = "none"
    /\ opened_w = FALSE
    /\ runner = NoWrite

\* parse_tck_scenarios.py is not running
TckIdle ==
    /\ corpus = [exists |-> FALSE, files |-> {}]
    /\ dir_stack = <<>>
    /\ cur_files = {}
    /\ walked = <<>>
    /\ parsed = <<>>
    /\ all_scenarios = <<>>
    /\ summary = NoSummary
    /\ manifest_json = NoManifest
    /\ manifest_csv = NoManifest
    /\ run = 0
    /\ prev_json = NoManifest
    /\ prev_csv = NoManifest
    /\ prev_corpus = [exists |-> FALSE, files |-> {}]

(***************************************************************************)
(* update_statistics as a function of its argument: called on a ledger,    *)
(* then called again on the result.                                        *)
(***************************************************************************)
InitStats ==
    /\ coverage_data \in {Dict(items) : items \in PlainLedgers \cup ShapedLedgers}
    /\ cd0 = coverage_data
    /\ pc = "stats_arg"
    /\ file = NoFile
    /\ file0 = NoFile
    /\ written = 0
    /\ exit_code = -1
    /\ stdout = <<>>
    /\ stderr = ""
    /\ raised_in = "none"
    /\ opened_w = FALSE
    /\ runner = NoWrite
    /\ TckIdle
    /\ DemoIdle
    /\ PluginIdle

UpdateStatisticsCall ==
    /\ pc \in {"stats_arg", "stats_once"}
    /\ ~update_statistics_raises(coverage_data.items)
    /\ coverage_data' = Dict(update_statistics(coverage_data.items))
    /\ pc' = IF pc = "stats_arg" THEN "stats_once" ELSE "stats_twice"
    /\ UNCHANGED <<file, written, exit_code, stdout, stderr, raised_in,
                   opened_w, file0, cd0, runner>>
    /\ UNCHANGED <<tckVars, demoVars, pluginVars>>

UpdateStatisticsRaise ==
    /\ pc \in {"stats_arg", "stats_once"}
    /\ update_statistics_raises(coverage_data.items)
    /\ pc' = "stats_raised"
    /\ raised_in' = "compute"
    /\ UNCHANGED <<file, coverage_data, written, exit_code, stdout, stderr,
                   opened_w, file0, cd0, runner>>
    /\ UNCHANGED <<tckVars, demoVars, pluginVars>>

NextStats == UpdateStatisticsCall \/ UpdateStatisticsRaise

SpecStats == InitStats /\ [][NextStats]_vars

(***************************************************************************)
(* main of update_compliance.py: one invocation, statement by statement.   *)
(*                                                                         *)
(* pc: start -> loaded -> computed -> dumping -> persisted -> done, or     *)
(* from any of them to except (the handler of `except Exception`) -> done. *)
(***************************************************************************)
Init ==
    /\ file \in InitialFiles
    /\ file0 = file
    /\ pc = "start"
    /\ coverage_data = Unbound
    /\ cd0 = Unbound
    /\ written = 0
    /\ exit_code = -1
    /\ stdout = <<>>
    /\ stderr = ""
    /\ raised_in = "none"
    /\ opened_w = FALSE
    /\ runner = NoWrite
    /\ TckIdle
    /\ DemoIdle
    /\ PluginIdle

\* with open('coverage.json', 'r') as f: coverage_data = json.load(f)
LoadLedger ==
    /\ pc = "start"
    /\ ~load_raises(file)
    /\ coverage_data' = Load(file)
    /\ cd0' = Load(file)
    /\ pc' = "loaded"
    /\ UNCHANGED <<file, written, exit_code, stdout, stderr, raised_in,
                   opened_w, file0, runner>>
    /\ UNCHANGED <<tckVars, demoVars, pluginVars>>

LoadRaise ==
    /\ pc = "start"
    /\ load_raises(file)
    /\ raised_in' = "load"
    /\ pc' = "except"
    /\ UNCHANGED <<file, coverage_data, written, exit_code, stdout, stderr,
                   opened_w, file0, cd0, runner>>
    /\ UNCHANGED <<tckVars, demoVars, pluginVars>>

\* update_statistics(coverage_data) raises: coverage_data is no dict (it has
\* no .get), or an entry of `scenarios` is no dict
recompute_raises(cd) ==
    cd.kind # "dict" \/ update_statistics_raises(cd.items)

\* update_statistics(coverage_data)
Recompute ==
    /\ pc = "loaded"
    /\ ~recompute_raises(coverage_data)
    /\ coverage_data' = Dict(update_statistics(coverage_data.items))
    /\ pc' = "computed"
    /\ UNCHANGED <<file, written, exit_code, stdout, stderr, raised_in,
                   opened_w, file0, cd0, runner>>
    /\ UNCHANGED <<tckVars, demoVars, pluginVars>>

RecomputeRaise ==
    /\ pc = "loaded"
    /\ recompute_raises(coverage_data)
    /\ raised_in' = "compute"
    /\ pc' = "except"
    /\ UNCHANGED <<file, coverage_data, written, exit_code, stdout, stderr,
                   opened_w, file0, cd0, runner>>
    /\ UNCHANGED <<tckVars, demoVars, pluginVars>>

\* what open('coverage.json', 'w') leaves on disk: the file, emptied
opened_for_write(f) == FileOf(<<>>)

\* open('coverage.json', 'w') succeeds
OpenWrite ==
    /\ pc = "computed"
    /\ file' = opened_for_write(file)
    /\ opened_w' = TRUE
    /\ written' = 0
    /\ pc' = "dumping"
    /\ UNCHANGED <<coverage_data, exit_code, stdout, stderr, raised_in,
                   file0, cd0, runner>>
    /\ UNCHANGED <<tckVars, demoVars, pluginVars>>

\* open('coverage.json', 'w') raises OSError (no permission, read-only
\* directory): the file is untouched
OpenWriteRaise ==
    /\ pc = "computed"
    /\ raised_in' = "open"
    /\ pc' = "except"
    /\ UNCHANGED <<file, coverage_data, written, exit_code, stdout, stderr,
                   opened_w, file0, cd0, runner>>
    /\ UNCHANGED <<tckVars, demoVars, pluginVars>>

\* json.dump writes its next chunk
DumpChunk ==
    /\ pc = "dumping"
    /\ written < Len(Dump(coverage_data.items))
    /\ file' = FileOf(Append(file.chunks, Dump(coverage_data.items)[written + 1]))
    /\ written' = written + 1
    /\ UNCHANGED <<pc, coverage_data, exit_code, stdout, stderr, raised_in,
                   opened_w, file0, cd0, runner>>
    /\ UNCHANGED <<tckVars, demoVars, pluginVars>>

\* a write of json.dump raises OSError (disk full, I/O error); the with
\* statement closes the file with what was written
DumpRaise ==
    /\ pc = "dumping"
    /\ written < Len(Dump(coverage_data.items))
    /\ raised_in' = "dump"
    /\ pc' = "except"
    /\ UNCHANGED <<file, coverage_data, written, exit_code, stdout, stderr,
                   opened_w, file0, cd0, runner>>
    /\ UNCHANGED <<tckVars, demoVars, pluginVars>>

\* json.dump has returned and the with statement closes the file
CloseWrite ==
    /\ pc = "dumping"
    /\ written = Len(Dump(coverage_data.items))
    /\ pc' = "persisted"
    /\ UNCHANGED <<file, coverage_data, written, exit_code, stdout, stderr,
                   raised_in, opened_w, file0, cd0, runner>>
    /\ UNCHANGED <<tckVars, demoVars, pluginVars>>

\* stats = coverage_data['statistics'] and the report; main returns
PrintReport ==
    /\ pc = "persisted"
    /\ stdout' = <<DictGet(coverage_data.items, "statistics", [x \in {} |-> 0])>>
    /\ exit_code' = 0
    /\ pc' = "done"
    /\ UNCHANGED <<file, coverage_data, written, stderr, raised_in, opened_w,
                   file0, cd0, runner>>
    /\ UNCHANGED <<tckVars, demoVars, pluginVars>>

\* the exit status of the except branch
error_exit_code == 1

\* except Exception as e: print to stderr, sys.exit(1)
HandleException ==
    /\ pc = "except"
    /\ stderr' = "Error updating compliance"
    /\ exit_code' = error_exit_code
    /\ pc' = "done"
    /\ UNCHANGED <<file, coverage_data, written, stdout, raised_in, opened_w,
                   file0, cd0, runner>>
    /\ UNCHANGED <<tckVars, demoVars, pluginVars>>

Next ==
    \/ LoadLedger \/ LoadRaise
    \/ Recompute \/ RecomputeRaise
    \/ OpenWrite \/ OpenWriteRaise
    \/ DumpChunk \/ DumpRaise \/ CloseWrite
    \/ PrintReport \/ HandleException

Spec == Init /\ [][Next]_vars

(***************************************************************************)
(* The external test-runner, writing one scenario's status into            *)
(* coverage.json while main is between its read and its write.             *)
(***************************************************************************)
RunnerStatuses == {"pass", "fail"}

\* the ledger with entry i given status st
WithStatusWritten(items, i, st) ==
    DictSet(items, "scenarios",
        [k \in 1..Len(DictGet(items, "scenarios", <<>>)) |->
            IF k = i
            THEN [f \in DOMAIN DictGet(items, "scenarios", <<>>)[k] \cup {"status"} |->
                     IF f = "status" THEN st
                     ELSE DictGet(items, "scenarios", <<>>)[k][f]]
            ELSE DictGet(items, "scenarios", <<>>)[k]])

RunnerWrite ==
    /\ pc \in {"loaded", "computed"}
    /\ ~runner.wrote
    /\ ~load_raises(file)
    /\ Load(file).kind = "dict"
    /\ \E i \in 1..Len(DictGet(Load(file).items, "scenarios", <<>>)) :
       \E st \in RunnerStatuses :
          /\ IsDict(DictGet(Load(file).items, "scenarios", <<>>)[i])
          /\ Get(DictGet(Load(file).items, "scenarios", <<>>)[i], "status", "") # st
          /\ file' = FileOf(Dump(WithStatusWritten(Load(file).items, i, st)))
          /\ runner' = [wrote |-> TRUE, index |-> i, status |-> st]
    /\ UNCHANGED <<pc, coverage_data, written, exit_code, stdout, stderr,
                   raised_in, opened_w, file0, cd0>>
    /\ UNCHANGED <<tckVars, demoVars, pluginVars>>

NextConcurrent == Next \/ RunnerWrite

SpecConcurrent == Init /\ [][NextConcurrent]_vars

(***************************************************************************)
(* What the properties read off a state.                                   *)
(***************************************************************************)
\* the `scenarios` list and the Statistics Block of the local coverage_data
Scenarios == DictGet(coverage_data.items, "scenarios", <<>>)
Statistics == DictGet(coverage_data.items, "statistics", [x \in {} |-> 0])

\* update_statistics has returned (once or twice)
Recomputed == pc \in {"stats_once", "stats_twice"}

\* the entries the loop sends to each counter
WithStatus(scenarios, s) ==
    {i \in 1..Len(scenarios) : Get(scenarios[i], "status", "pending") = s}
WithOtherStatus(scenarios) ==
    {i \in 1..Len(scenarios) :
        Get(scenarios[i], "status", "pending") \notin {"pass", "fail", "skip"}}

StatusesOf(scenarios) ==
    [i \in 1..Len(scenarios) |-> Get(scenarios[i], "status", "")]

\* a <= b for natural numbers given by their bits (no leading zero)
LeqBits(a, b) ==
    \/ Len(a) < Len(b)
    \/ /\ Len(a) = Len(b)
       /\ \/ a = b
          \/ \E j \in 1..Len(a) :
                /\ a[j] < b[j]
                /\ \A k \in 1..(j - 1) : a[k] = b[k]

\* |x * den - num| <= num * 2^-51 in exact arithmetic, for a double x >= 0
\* and whole numbers num >= 0, den > 0
WithinRounding(x, num, den) ==
    IF num = 0 THEN x = Zero
    ELSE /\ x # Zero
         /\ x.exp <= 0
         /\ LET r     == PrecBits - 2
                shift == 0 - x.exp
                mid   == MulSmall(x.mant, den) \o Zeros(r)
                lo    == MulSmall([i \in 1..r |-> 1], num) \o Zeros(shift)
                hi    == MulSmall(<<1>> \o Zeros(r - 1) \o <<1>>, num) \o Zeros(shift)
            IN  LeqBits(lo, mid) /\ LeqBits(mid, hi)

(***************************************************************************)
(* C1.  After update_statistics has run on a ledger whose entries are      *)
(* records, the four counters of the Statistics Block add up to            *)
(* total_scenarios, and total_scenarios is the length of `scenarios`.      *)
(***************************************************************************)
C1_TotalsAddUp ==
    Recomputed =>
        /\ Statistics.passed + Statistics.failed + Statistics.skipped
              + Statistics.pending = Statistics.total_scenarios
        /\ Statistics.total_scenarios = Len(Scenarios)

\* a recomputed ledger of three or more entries, one without a status and one
\* with an unrecognised status
C1_Witness ==
    /\ pc = "stats_once"
    /\ Len(Scenarios) >= 3
    /\ \E i \in 1..Len(Scenarios) : "status" \notin DOMAIN Scenarios[i]
    /\ \E i \in 1..Len(Scenarios) : Get(Scenarios[i], "status", "") = "blocked"
    /\ Statistics.pending >= 2

(***************************************************************************)
(* C2.  Recomputation is idempotent: a second update_statistics on the     *)
(* result of the first leaves coverage_data, Statistics Block included,    *)
(* exactly as the first left it.                                           *)
(***************************************************************************)
C2_Idempotent ==
    [][(pc = "stats_once" /\ pc' = "stats_twice") => coverage_data' = coverage_data]_vars

\* update_statistics has run twice on a ledger that came with a stale block,
\* which the first run changed
C2_Witness ==
    /\ pc = "stats_twice"
    /\ DictHas(cd0.items, "statistics")
    /\ cd0 # coverage_data
    /\ Statistics.total_scenarios >= 2
    /\ Statistics.passed >= 1

(***************************************************************************)
(* C3.  Every entry lands in exactly one counter: `pass` in passed, `fail` *)
(* in failed, `skip` in skipped, anything else (a missing status too) in   *)
(* pending; update_statistics raises only on an entry that is no record.   *)
(***************************************************************************)
C3_OneCounterPerEntry ==
    /\ Recomputed =>
          /\ Statistics.passed = Cardinality(WithStatus(Scenarios, "pass"))
          /\ Statistics.failed = Cardinality(WithStatus(Scenarios, "fail"))
          /\ Statistics.skipped = Cardinality(WithStatus(Scenarios, "skip"))
          /\ Statistics.pending = Cardinality(WithOtherStatus(Scenarios))
    /\ pc = "stats_raised" => \E i \in 1..Len(Scenarios) : ~IsDict(Scenarios[i])

\* a recomputed ledger with a passed, a failed, a skipped and a status-less
\* entry: every counter is 1
C3_Witness ==
    /\ pc = "stats_once"
    /\ Statistics.passed = 1 /\ Statistics.failed = 1
    /\ Statistics.skipped = 1 /\ Statistics.pending = 1
    /\ \E i \in 1..Len(Scenarios) : "status" \notin DOMAIN Scenarios[i]

(***************************************************************************)
(* C4.  A ledger with no scenario entries (an empty `scenarios` list or no *)
(* `scenarios` key) recomputes without an error to total_scenarios 0, all  *)
(* four counters 0 and compliance_percentage 0.0.                          *)
(***************************************************************************)
C4_EmptyLedger ==
    Len(DictGet(cd0.items, "scenarios", <<>>)) = 0 =>
        /\ pc # "stats_raised"
        /\ Recomputed =>
              Statistics = [total_scenarios |-> 0, passed |-> 0, failed |-> 0,
                            skipped |-> 0, pending |-> 0,
                            compliance_percentage |-> Zero]

\* a ledger without a `scenarios` key has been recomputed
C4_Witness ==
    /\ pc = "stats_once"
    /\ ~DictHas(cd0.items, "scenarios")
    /\ DictHas(coverage_data.items, "statistics")

(***************************************************************************)
(* C5 as claimed.  For total_scenarios > 0, compliance_percentage *        *)
(* total_scenarios == passed * 100 (as Python evaluates it); statuses      *)
(* [pass, pass, fail, pending] give 4, 2, 1, 0, 1 and 50.0.                *)
(***************************************************************************)
C5_ExactIdentity ==
    (Recomputed /\ Statistics.total_scenarios > 0) =>
        /\ FloatMul(Statistics.compliance_percentage, Statistics.total_scenarios)
              = IntToFloat(Statistics.passed * 100)
        /\ Statistics.passed = Cardinality(WithStatus(Scenarios, "pass"))

(***************************************************************************)
(* C5 as amended.  For total_scenarios > 0, compliance_percentage is       *)
(* passed / total_scenarios * 100 up to the rounding of the two float      *)
(* operations: 0.0 when passed is 0, and otherwise within a relative error *)
(* of 2^-51 of the exact quotient; passed counts the `pass` entries; and   *)
(* statuses [pass, pass, fail, pending] give 4, 2, 1, 0, 1 and exactly     *)
(* 50.0.                                                                   *)
(***************************************************************************)
C5_PercentageUpToRounding ==
    (Recomputed /\ Statistics.total_scenarios > 0) =>
        /\ Statistics.passed = Cardinality(WithStatus(Scenarios, "pass"))
        /\ WithinRounding(Statistics.compliance_percentage,
                          Statistics.passed * 100, Statistics.total_scenarios)
        /\ StatusesOf(Scenarios) = <<"pass", "pass", "fail", "pending">> =>
              Statistics = [total_scenarios |-> 4, passed |-> 2, failed |-> 1,
                            skipped |-> 0, pending |-> 1,
                            compliance_percentage |-> IntToFloat(50)]

\* the ledger of the example has been recomputed
C5_Witness ==
    /\ pc = "stats_once"
    /\ StatusesOf(Scenarios) = <<"pass", "pass", "fail", "pending">>
    /\ Statistics.compliance_percentage = IntToFloat(50)

(***************************************************************************)
(* What the properties of main read off a state.                           *)
(***************************************************************************)
\* everything of the top-level object but `statistics` is the same in a and
\* b: the other keys, their order and their values (the `scenarios` list
\* with every entry and every field of it)
SameButStatistics(a, b) ==
    /\ DictWithout(a, "statistics") = DictWithout(b, "statistics")
    /\ DictKeys(a) \ {"statistics"} = DictKeys(b) \ {"statistics"}

\* the invocation has ended with nothing raised
Succeeded == pc = "done" /\ raised_in = "none"

\* there is no file, or its text is not a JSON document
MissingOrInvalid(f) ==
    \/ ~f.exists
    \/ ~(IsObjectText(f.chunks) \/ f.chunks = <<ArrayText>>)

\* the ledger file as a complete recompute of the file the invocation found
RecomputedFile(f) == FileOf(Dump(update_statistics(Load(f).items)))

(***************************************************************************)
(* C6.  Recomputation changes only the `statistics` key: the `scenarios`   *)
(* list (length, order, every field of every entry) and every other        *)
(* top-level key are the same before and after update_statistics, and in   *)
(* the file main has written.                                              *)
(***************************************************************************)
C6_OnlyStatisticsChanges ==
    /\ coverage_data.kind = "dict" =>
          /\ SameButStatistics(coverage_data.items, cd0.items)
          /\ pc \in {"start", "loaded"} \/ raised_in = "compute"
                \/ DictHas(coverage_data.items, "statistics")
    /\ (pc = "persisted" \/ Succeeded) =>
          /\ ~load_raises(file)
          /\ Load(file).kind = "dict"
          /\ SameButStatistics(Load(file).items, Load(file0).items)
          /\ DictHas(Load(file).items, "statistics")

\* main has rewritten a ledger that has an unrecognised top-level key, an
\* entry with an extra field and an entry without a status
C6_Witness ==
    /\ Succeeded
    /\ file # file0
    /\ DictHas(cd0.items, "source")
    /\ \E i \in 1..Len(Scenarios) : "priority" \in DOMAIN Scenarios[i]
    /\ \E i \in 1..Len(Scenarios) : "status" \notin DOMAIN Scenarios[i]

(***************************************************************************)
(* C7.  The recompute pass replaces the ledger file atomically: at every   *)
(* point of an invocation coverage.json is either the complete file the    *)
(* invocation found or the complete file with the new Statistics Block.    *)
(***************************************************************************)
C7_AtomicReplace ==
    \/ file = file0
    \/ /\ ~load_raises(file0)
       /\ ~recompute_raises(Load(file0))
       /\ file = RecomputedFile(file0)

(***************************************************************************)
(* C8.  If persisting fails after load and recompute (the open for write   *)
(* or a write of the serialization raises), the invocation exits non-zero  *)
(* and coverage.json still holds its complete pre-invocation content.      *)
(***************************************************************************)
C8_FailedPersistKeepsFile ==
    (pc = "done" /\ raised_in \in {"open", "dump"}) =>
        /\ exit_code # 0
        /\ file = file0

(***************************************************************************)
(* C9.  No lost update: if the test-runner writes a scenario status into   *)
(* coverage.json between main's read and main's write, then once main has  *)
(* succeeded the file still has the runner's status and its Statistics     *)
(* Block is the recomputation over the statuses in the file.               *)
(***************************************************************************)
C9_NoLostUpdate ==
    (Succeeded /\ runner.wrote) =>
        /\ ~load_raises(file)
        /\ Load(file).kind = "dict"
        /\ LET items == Load(file).items
               scenarios == DictGet(items, "scenarios", <<>>)
           IN  /\ runner.index \in 1..Len(scenarios)
               /\ Get(scenarios[runner.index], "status", "") = runner.status
               /\ DictGet(items, "statistics", [x \in {} |-> 0]) = NewStats(items)

Alphabet ==
    <<"-", ".", "/", "0", "1", "2", "3", "4", "5", "6", "7", "8", "9",
      "a", "b", "e", "f", "k", "n", "o", "r", "t", "u", "w">>

\* the place of a character in the code point order
Ord(c) == CHOOSE i \in 1..Len(Alphabet) : Alphabet[i] = c

FeatureExt == <<".", "f", "e", "a", "t", "u", "r", "e">>

\* the k-th smallest element of a set of numbers
Nth(S, k) == CHOOSE x \in S : Cardinality({y \in S : y < x}) = k - 1

\* s.endswith(suffix)
endswith(s, suffix) ==
    /\ Len(s) >= Len(suffix)
    /\ SubSeq(s, Len(s) - Len(suffix) + 1, Len(s)) = suffix

\* s.replace(old, ''): every occurrence of old goes.  Python takes the
\* occurrences from the left without overlap; old is '.feature', of which no
\* two occurrences can overlap, so that is all of them.
Occurrences(s, old) ==
    {i \in 1..(Len(s) - Len(old) + 1) : SubSeq(s, i, i + Len(old) - 1) = old}

Remove(s, old) ==
    LET kept == {j \in 1..Len(s) :
                    ~\E i \in Occurrences(s, old) : i <= j /\ j < i + Len(old)}
    IN  [k \in 1..Cardinality(kept) |-> s[Nth(kept, k)]]

\* s.split(sep) for a one-character sep: the pieces between the separators,
\* empty pieces included
Split(s, sep) ==
    LET seps == {i \in 1..Len(s) : s[i] = sep}
        n == Cardinality(seps) + 1
    IN  [k \in 1..n |->
            SubSeq(s, IF k = 1 THEN 1 ELSE Nth(seps, k - 1) + 1,
                      IF k = n THEN Len(s) ELSE Nth(seps, k) - 1)]

\* sep.join(parts)
RECURSIVE Join(_, _)
Join(parts, sep) ==
    IF Len(parts) = 0 THEN <<>>
    ELSE IF Len(parts) = 1 THEN parts[1]
    ELSE parts[1] \o sep \o Join(Tail(parts), sep)

\* str(n) for n >= 0
RECURSIVE Decimal(_)
Decimal(n) ==
    IF n < 10 THEN <<Alphabet[Ord("0") + n]>>
    ELSE Decimal(n \div 10) \o <<Alphabet[Ord("0") + (n % 10)]>>

\* f"{n:02d}": padded with zeros to two digits, longer numbers in full
TwoDigits(n) == IF n < 10 THEN <<"0">> \o Decimal(n) ELSE Decimal(n)

\* os.path.relpath(os.path.join(root, file), 'openCypher-master/tck/features')
\* for a file `name` in the directory `dir` (its segments below the corpus
\* root)
relative_path(dir, name) == Join(Append(dir, name), <<"/">>)

\* the id parse_feature_file gives the scenario at index i (from 0) of the
\* document at relative path rel
scenario_id(rel, i) ==
    Join(Split(Remove(rel, FeatureExt), "/"), <<"-">>) \o <<"-">> \o TwoDigits(i + 1)

Unknown == <<"u", "n", "k", "n", "o", "w", "n">>

determine_language_area_first_segment(file_path) ==
    Split(file_path, "/")[1]

determine_language_area(file_path) ==
    LET parts == Split(file_path, "/")
    IN  IF Len(parts) >= 2
        THEN IF Len(parts) >= 3
             THEN parts[1] \o <<".">> \o parts[2]
             ELSE parts[1]
        ELSE Unknown

(***************************************************************************)
(* The text of a feature document is a sequence of tokens: a word (a       *)
(* maximal run of word characters), a space " ", a newline "\n" or a       *)
(* punctuation character.  Two words are never adjacent, so a word's two   *)
(* ends are the places where the regular expressions' \b matches.          *)
(***************************************************************************)
\* \s
IsSpace(tok) == tok \in {" ", "\n"}

\* ^ under re.MULTILINE
LineStart(c, p) == p = 1 \/ c[p - 1] = "\n"

\* the last position of the line that has position p
LineEnd(c, p) ==
    CHOOSE e \in p..Len(c) :
        /\ \A k \in p..e : c[k] # "\n"
        /\ e = Len(c) \/ c[e + 1] = "\n"

\* the literal lit is at position p
HasAt(c, p, lit) ==
    /\ p + Len(lit) - 1 <= Len(c)
    /\ SubSeq(c, p, p + Len(lit) - 1) = lit

\* the places where (.+) can start after \s* has started at q.  \s* takes
\* spaces and newlines alike, up to r; (.+) needs one character that is no
\* newline, so \s* gives characters back until it leaves one.
NameStarts(c, q) ==
    LET r == CHOOSE x \in q..(Len(c) + 1) :
                 /\ \A k \in q..(x - 1) : IsSpace(c[k])
                 /\ x = Len(c) + 1 \/ ~IsSpace(c[x])
    IN  {s \in q..r : s <= Len(c) /\ c[s] # "\n"}

\* \s*(.+)$ from q: \s* is greedy, so (.+) starts at the last place it can,
\* and runs to the end of that line
RestMatches(c, q) == NameStarts(c, q) # {}

RestName(c, q) ==
    LET s == CHOOSE x \in NameStarts(c, q) : \A y \in NameStarts(c, q) : y <= x
    IN  [from |-> s, to |-> LineEnd(c, s)]

\* str.strip()
Strip(s) ==
    LET solid == {i \in 1..Len(s) : ~IsSpace(s[i])}
    IN  IF solid = {} THEN <<>>
        ELSE SubSeq(s, Nth(solid, 1), Nth(solid, Cardinality(solid)))

\* the alternatives of (Scenario|Scenario Outline), in the order tried
ScenarioTypes == <<"Scenario", "Scenario Outline">>

TypeTokens(ty) ==
    IF ty = "Scenario" THEN <<"Scenario">> ELSE <<"Scenario", " ", "Outline">>

\* r'^  (Scenario|Scenario Outline):\s*(.+)$' at position p
ScenarioPrefix(ty) == <<" ", " ">> \o TypeTokens(ty) \o <<":">>

ScenarioTypeAt(c, p) ==
    {i \in 1..Len(ScenarioTypes) :
        /\ HasAt(c, p, ScenarioPrefix(ScenarioTypes[i]))
        /\ RestMatches(c, p + Len(ScenarioPrefix(ScenarioTypes[i])))}

ScenarioMatchesAt(c, p) == LineStart(c, p) /\ ScenarioTypeAt(c, p) # {}

ScenarioMatch(c, p) ==
    LET ty == ScenarioTypes[Nth(ScenarioTypeAt(c, p), 1)]
        name == RestName(c, p + Len(ScenarioPrefix(ty)))
    IN  [type |-> ty, name |-> SubSeq(c, name.from, name.to), end |-> name.to]

\* re.findall(scenario_pattern, content, re.MULTILINE) from position `from`:
\* the leftmost match, then the matches after its end
RECURSIVE FindScenarios(_, _)
FindScenarios(c, from) ==
    LET at == {p \in from..Len(c) : ScenarioMatchesAt(c, p)}
    IN  IF at = {} THEN <<>>
        ELSE LET m == ScenarioMatch(c, Nth(at, 1))
             IN  <<[type |-> m.type, name |-> m.name]>> \o FindScenarios(c, m.end + 1)

\* re.search(r'^Feature:\s*(.+)$', content, re.MULTILINE) and the sentinel
FeaturePrefix == <<"Feature", ":">>

FeatureMatchesAt(c, p) ==
    /\ LineStart(c, p)
    /\ HasAt(c, p, FeaturePrefix)
    /\ RestMatches(c, p + Len(FeaturePrefix))

feature_name(c) ==
    LET at == {p \in 1..Len(c) : FeatureMatchesAt(c, p)}
    IN  IF at = {} THEN <<"Unknown">>
        ELSE LET name == RestName(c, Nth(at, 1) + Len(FeaturePrefix))
             IN  Strip(SubSeq(c, name.from, name.to))

(***************************************************************************)
(* check_requires_runtime.  A pattern is the sequence of its words in      *)
(* lower case and its spaces; re.IGNORECASE compares the text's words in   *)
(* lower case too.                                                         *)
(***************************************************************************)
\* the words of the model's documents that are not in lower case already
Folded ==
    [Then |-> "then", THE |-> "the", And |-> "and", When |-> "when",
     Given |-> "given", SyntaxError |-> "syntaxerror",
     TypeError |-> "typeerror", Error |-> "error", Feature |-> "feature",
     Scenario |-> "scenario", Outline |-> "outline", Addition |-> "addition"]

Lower(tok) == IF tok \in DOMAIN Folded THEN Folded[tok] ELSE tok

\* \w+Error under re.IGNORECASE: a word that ends in `error` after at least
\* one more word character
TypedError == "\\w+error"

IsTypedError(tok) == Lower(tok) \in {"syntaxerror", "typeerror"}

\* words with one space between them
Phrase(words) ==
    [k \in 1..(2 * Len(words) - 1) |->
        IF k % 2 = 1 THEN words[(k + 1) \div 2] ELSE " "]

runtime_indicators ==
    << Phrase(<<"and", "the", "result", "should", "be">>),
       Phrase(<<"then", "the", "result", "should", "be">>),
       Phrase(<<"and", "the", "side", "effects", "should", "be">>),
       Phrase(<<"then", "the", "side", "effects", "should", "be">>),
       Phrase(<<"when", "executing", "query">>),
       Phrase(<<"and", "executing", "query">>),
       Phrase(<<"then", "a", TypedError, "should", "be", "raised">>),
       Phrase(<<"and", "a", TypedError, "should", "be", "raised">>),
       Phrase(<<"no", "side", "effects">>),
       Phrase(<<"rows", "in", "any", "order">>),
       Phrase(<<"rows", "in", "order">>) >>

parse_validate_indicators ==
    << Phrase(<<"then", "a", "syntaxerror", "should", "be", "raised">>),
       Phrase(<<"and", "a", "syntaxerror", "should", "be", "raised">>),
       Phrase(<<"should", "fail", "to", "parse">>),
       Phrase(<<"parse", "error">>) >>

\* the alternatives of the last pattern
graph_setup_phrases ==
    << Phrase(<<"given", "an", "empty", "graph">>),
       Phrase(<<"given", "any", "graph">>),
       Phrase(<<"when", "executing", "query">>) >>

\* re.search(indicator, content, re.IGNORECASE)
Search(indicator, c) ==
    \E p \in 1..(Len(c) - Len(indicator) + 1) :
        \A k \in 1..Len(indicator) :
            IF indicator[k] = TypedError
            THEN IsTypedError(c[p + k - 1])
            ELSE Lower(c[p + k - 1]) = indicator[k]

SearchAny(indicators, c) ==
    \E i \in 1..Len(indicators) : Search(indicators[i], c)

check_requires_runtime_runtime_first(content, scenario_name) ==
    IF SearchAny(runtime_indicators, content) THEN TRUE
    ELSE IF SearchAny(parse_validate_indicators, content) THEN FALSE
    ELSE SearchAny(graph_setup_phrases, content)

check_requires_runtime_indicators_only(content, scenario_name) ==
    IF SearchAny(parse_validate_indicators, content) THEN FALSE
    ELSE SearchAny(runtime_indicators, content)

\* classifying a scenario by the text from its own name on
check_requires_runtime_own_text(content, scenario_name) ==
    LET starts == {p \in 1..Len(content) : HasAt(content, p, scenario_name)}
        own == IF starts = {} \/ scenario_name = <<>> THEN content
               ELSE SubSeq(content, Nth(starts, 1), Len(content))
    IN  IF SearchAny(parse_validate_indicators, own) THEN FALSE
        ELSE IF SearchAny(runtime_indicators, own) THEN TRUE
        ELSE SearchAny(graph_setup_phrases, own)

check_requires_runtime(content, scenario_name) ==
    IF SearchAny(parse_validate_indicators, content) THEN FALSE
    ELSE IF SearchAny(runtime_indicators, content) THEN TRUE
    ELSE IF SearchAny(graph_setup_phrases, content) THEN TRUE
    ELSE FALSE

(***************************************************************************)
(* Feature documents.  A file of the corpus is its directory (the segments *)
(* below the corpus root), its name, its lines and whether it can be       *)
(* opened and decoded.                                                     *)
(***************************************************************************)
File(dir, name, lines, readable) ==
    [dir |-> dir, name |-> name, lines |-> lines, readable |-> readable]

\* f.read(): every line with its newline
RECURSIVE Text(_)
Text(lines) ==
    IF Len(lines) = 0 THEN <<>>
    ELSE Head(lines) \o <<"\n">> \o Text(Tail(lines))

\* open(file_path, 'r', encoding='utf-8') or f.read() raises
parse_feature_file_reads_anything(f) == FALSE

parse_feature_file_raises(f) == ~f.readable

parse_feature_file(f) ==
    LET content == Text(f.lines)
        scenarios_found == FindScenarios(content, 1)
        rel == relative_path(f.dir, f.name)
    IN  [i \in 1..Len(scenarios_found) |->
            [scenario_id |-> scenario_id(rel, i - 1),
             scenario_name |-> Strip(scenarios_found[i].name),
             scenario_type |-> scenarios_found[i].type,
             feature_name |-> feature_name(content),
             file_path |-> rel,
             language_area |-> determine_language_area(rel),
             requires_runtime |->
                 check_requires_runtime(content, scenarios_found[i].name)]]

(***************************************************************************)
(* Bounds and inputs of the parser.                                        *)
(***************************************************************************)
\* most lines of a document handed to parse_feature_file
MaxLines == 3
\* most files of a corpus handed to main
MaxFiles == 3

Indent(n) == [k \in 1..n |-> " "]

FeatureLine == <<"Feature", ":", " ", "Addition">>
OtherFeatureLine == <<"Feature", ":", " ", "Subtraction", " ">>
NamelessFeature == <<"Feature", ":">>
ScenarioA == Indent(2) \o <<"Scenario", ":", " ", "a">>
OutlineB == Indent(2) \o <<"Scenario", " ", "Outline", ":", " ", "b", " ">>
NamelessScenario == Indent(2) \o <<"Scenario", ":">>
DeeperScenario == Indent(3) \o <<"Scenario", ":", " ", "a">>
BlankLine == <<>>
GivenEmptyGraph == Indent(4) \o Phrase(<<"Given", "an", "empty", "graph">>)
AndHavingExecuted == Indent(4) \o Phrase(<<"And", "having", "executed">>)
ThenResult == Indent(4) \o Phrase(<<"Then", "the", "result", "should", "be">>)
ThenResultFolded == Indent(4) \o Phrase(<<"then", "THE", "result", "should", "be">>)
ThenSyntaxError ==
    Indent(4) \o Phrase(<<"Then", "a", "SyntaxError", "should", "be", "raised">>)
ThenTypeError ==
    Indent(4) \o Phrase(<<"Then", "a", "TypeError", "should", "be", "raised">>)
FailToParse == Indent(4) \o Phrase(<<"it", "should", "fail", "to", "parse">>)

\* lines around declarations, and the step lines of a scenario
HeadLines ==
    {FeatureLine, OtherFeatureLine, NamelessFeature, ScenarioA, OutlineB,
     NamelessScenario, DeeperScenario, BlankLine, GivenEmptyGraph}
StepLines ==
    {GivenEmptyGraph, AndHavingExecuted, ThenResult, ThenResultFolded,
     ThenSyntaxError, ThenTypeError, FailToParse}

Documents ==
    SeqsUpTo(HeadLines, MaxLines)
        \cup {<<ScenarioA>> \o steps : steps \in SeqsUpTo(StepLines, MaxLines)}

\* a document with more than nine scenarios
LongDocument == [k \in 1..(MaxLines + 8) |-> ScenarioA]

\* two scenarios that need the runtime, one that does not
RuntimeDocument == <<FeatureLine, ScenarioA, OutlineB, ThenResult>>
ParseOnlyDocument == <<ScenarioA, ThenSyntaxError>>

DirA == <<"a">>
DirB == <<"b">>
NameB == <<"b">> \o FeatureExt
NameA == <<"a">> \o FeatureExt

\* where a document can be: <<directory, name>>
Places ==
    { << <<>>, <<"a", "-", "b">> \o FeatureExt >>,
      << <<>>, NameB >>,
      << <<DirA>>, NameB >>,
      << <<DirA \o FeatureExt>>, NameB >>,
      << <<DirA, DirB>>, NameA >>,
      << <<DirA, DirB, DirA>>, NameB >> }

ParseInputs ==
    {File(<<DirA>>, NameB, lines, TRUE) : lines \in Documents}
        \cup {File(pl[1], pl[2], lines, r) :
                pl \in Places,
                lines \in {LongDocument, RuntimeDocument, ParseOnlyDocument},
                r \in BOOLEAN}

(***************************************************************************)
(* parse_feature_file as a function of the file it is given.               *)
(***************************************************************************)
\* the one file of the corpus
TheFile == CHOOSE f \in corpus.files : TRUE

InitParse ==
    /\ \E f \in ParseInputs : corpus = [exists |-> TRUE, files |-> {f}]
    /\ pc = "parse_arg"
    /\ exit_code = -1
    /\ stdout = <<>>
    /\ dir_stack = <<>>
    /\ cur_files = {}
    /\ walked = <<>>
    /\ parsed = <<>>
    /\ all_scenarios = <<>>
    /\ summary = NoSummary
    /\ manifest_json = NoManifest
    /\ manifest_csv = NoManifest
    /\ run = 0
    /\ prev_json = NoManifest
    /\ prev_csv = NoManifest
    /\ prev_corpus = [exists |-> FALSE, files |-> {}]
    /\ LedgerIdle
    /\ DemoIdle
    /\ PluginIdle

ParseFeatureFileCall ==
    /\ pc = "parse_arg"
    /\ ~parse_feature_file_raises(TheFile)
    /\ parsed' = parse_feature_file(TheFile)
    /\ pc' = "parse_returned"
    /\ UNCHANGED <<corpus, dir_stack, cur_files, walked, all_scenarios, summary,
                   manifest_json, manifest_csv, run, prev_json, prev_csv,
                   prev_corpus>>
    /\ UNCHANGED <<exit_code, stdout, ledgerVars, demoVars, pluginVars>>

ParseFeatureFileRaise ==
    /\ pc = "parse_arg"
    /\ parse_feature_file_raises(TheFile)
    /\ pc' = "parse_raised"
    /\ UNCHANGED <<exit_code, stdout, ledgerVars, tckVars, demoVars, pluginVars>>

NextParse == ParseFeatureFileCall \/ ParseFeatureFileRaise

SpecParse == InitParse /\ [][NextParse]_vars

(***************************************************************************)
(* main of parse_tck_scenarios.py.                                         *)
(***************************************************************************)
\* str < str: by code points, a proper prefix first
StrLess(a, b) ==
    \E k \in 1..Len(b) :
        /\ k <= Len(a) + 1
        /\ SubSeq(a, 1, k - 1) = SubSeq(b, 1, k - 1)
        /\ k = Len(a) + 1 \/ Ord(a[k]) < Ord(b[k])

\* the key of the tabular manifest's sort, compared as Python compares tuples
KeyLess(x, y) ==
    \/ StrLess(x.language_area, y.language_area)
    \/ /\ x.language_area = y.language_area
       /\ StrLess(x.scenario_id, y.scenario_id)

\* sorted(all_scenarios, key=...): ascending and stable
sorted_by_scenario_id(all) ==
    LET Before(j, i) ==
            \/ StrLess(all[j].scenario_id, all[i].scenario_id)
            \/ ~StrLess(all[i].scenario_id, all[j].scenario_id) /\ j < i
    IN  [k \in 1..Len(all) |->
            all[CHOOSE i \in 1..Len(all) :
                    Cardinality({j \in 1..Len(all) : Before(j, i)}) = k - 1]]

sorted(all) ==
    LET Before(j, i) ==
            \/ KeyLess(all[j], all[i])
            \/ ~KeyLess(all[i], all[j]) /\ j < i
    IN  [k \in 1..Len(all) |->
            all[CHOOSE i \in 1..Len(all) :
                    Cardinality({j \in 1..Len(all) : Before(j, i)}) = k - 1]]

\* one turn of the grouping loop: a new area gets an empty list at the end
\* of the dict, then the scenario goes to the end of its area's list
GroupInto_last_only(groups, scenario) ==
    DictSet(groups, scenario.language_area, <<scenario>>)

GroupInto(groups, scenario) ==
    LET area == scenario.language_area
        with_area == IF DictHas(groups, area) THEN groups
                     ELSE Append(groups, <<area, <<>> >>)
    IN  DictSet(with_area, area, Append(DictGet(with_area, area, <<>>), scenario))

RECURSIVE GroupLoop(_, _)
GroupLoop(groups, rest) ==
    IF Len(rest) = 0 THEN groups
    ELSE GroupLoop(GroupInto(groups, Head(rest)), Tail(rest))

\* the runtime scenarios counted over all the areas, not the area's own
LanguageAreas_counting_all(scenarios_by_area) ==
    [g \in 1..Len(scenarios_by_area) |->
        LET group == scenarios_by_area[g][2]
            runtime_count ==
                Cardinality(
                    UNION {{<<h, i>> : i \in
                              {j \in DOMAIN scenarios_by_area[h][2] :
                                  scenarios_by_area[h][2][j].requires_runtime}} :
                           h \in 1..Len(scenarios_by_area)})
        IN  <<scenarios_by_area[g][1],
              [total_scenarios |-> Len(group),
               runtime_execution |-> runtime_count,
               parse_validate_only |-> Len(group) - runtime_count]>>]

\* summary['language_areas'][area] for every area
LanguageAreas(scenarios_by_area) ==
    [g \in 1..Len(scenarios_by_area) |->
        LET group == scenarios_by_area[g][2]
            runtime_count == Cardinality({i \in 1..Len(group) : group[i].requires_runtime})
        IN  <<scenarios_by_area[g][1],
              [total_scenarios |-> Len(group),
               runtime_execution |-> runtime_count,
               parse_validate_only |-> Len(group) - runtime_count]>>]

Summary(all) ==
    [built |-> TRUE,
     commit_info |-> [repository |-> "opencypher/openCypher",
                      commit_hash |-> "7db2677dd3c6c87cc8d6b35fa7a32e5054ef6ebf",
                      total_scenarios |-> Len(all)],
     language_areas |-> LanguageAreas(GroupLoop(<<>>, all)),
     scenarios_by_area |-> GroupLoop(<<>>, all)]

\* json.dump(summary, f, indent=2) into a fresh file
JsonManifest(s) ==
    [exists |-> TRUE,
     commit_info |-> s.commit_info,
     language_areas |-> s.language_areas,
     scenarios_by_area |-> s.scenarios_by_area]

CsvHeader ==
    <<"scenario_id", "scenario_name", "scenario_type", "feature_name",
      "file_path", "language_area", "requires_runtime">>

\* what csv.writer writes for a bool
BoolText(b) == IF b THEN "True" ELSE "False"

CsvRow(scenario) ==
    <<scenario.scenario_id, scenario.scenario_name, scenario.scenario_type,
      scenario.feature_name, scenario.file_path, scenario.language_area,
      BoolText(scenario.requires_runtime)>>

\* the file opened for appending: the rows of the run stay below those the
\* file had
CsvManifest_appending(all) ==
    [exists |-> TRUE,
     header |-> CsvHeader,
     rows |-> (IF manifest_csv.exists THEN manifest_csv.rows ELSE <<>>)
                \o [k \in 1..Len(all) |-> CsvRow(sorted(all)[k])]]

CsvManifest(all) ==
    [exists |-> TRUE,
     header |-> CsvHeader,
     rows |-> [k \in 1..Len(all) |-> CsvRow(sorted(all)[k])]]

\* the files the corpora of main are made of: documents that need the
\* runtime and documents that do not, unreadable documents, and a file that
\* is no feature document
CorpusFiles ==
    { File(<<>>, <<"a", "-", "b">> \o FeatureExt, RuntimeDocument, TRUE),
      File(<<>>, NameB, ParseOnlyDocument, TRUE),
      File(<<>>, NameB, ParseOnlyDocument, FALSE),
      File(<<DirA>>, NameB, RuntimeDocument, TRUE),
      File(<<DirA>>, NameB, ParseOnlyDocument, FALSE),
      File(<<DirA \o FeatureExt>>, NameB, ParseOnlyDocument, TRUE),
      File(<<DirA, DirB>>, NameA, RuntimeDocument, TRUE),
      File(<<DirA>>, <<"a">>, RuntimeDocument, TRUE) }

\* the corpora main is run on: no two files in the same place
Corpora ==
    {[exists |-> FALSE, files |-> {}]}
        \cup {[exists |-> TRUE, files |-> S] :
                S \in {T \in SUBSET CorpusFiles :
                          /\ Cardinality(T) <= MaxFiles
                          /\ \A f, g \in T :
                                (f.dir = g.dir /\ f.name = g.name) => f = g}}

\* the listing of a directory: its files, and its subdirectories
FilesIn(d) == {f \in corpus.files : f.dir = d}

Subdirs(d) ==
    {SubSeq(f.dir, 1, Len(d) + 1) :
        f \in {g \in corpus.files :
                  Len(g.dir) > Len(d) /\ SubSeq(g.dir, 1, Len(d)) = d}}

\* most starts of the manifest builder
MaxRuns == 2

InitManifest ==
    /\ corpus \in Corpora
    /\ pc = "tck_start"
    /\ exit_code = -1
    /\ stdout = <<>>
    /\ dir_stack = <<>>
    /\ cur_files = {}
    /\ walked = <<>>
    /\ parsed = <<>>
    /\ all_scenarios = <<>>
    /\ summary = NoSummary
    /\ manifest_json = NoManifest
    /\ manifest_csv = NoManifest
    /\ run = 1
    /\ prev_json = NoManifest
    /\ prev_csv = NoManifest
    /\ prev_corpus = [exists |-> FALSE, files |-> {}]
    /\ LedgerIdle
    /\ DemoIdle
    /\ PluginIdle

\* if not os.path.exists(tck_features_dir): print, return
MissingRoot ==
    /\ pc = "tck_start"
    /\ ~corpus.exists
    /\ stdout' = Append(stdout, "Error: TCK features directory not found")
    /\ exit_code' = 0
    /\ pc' = "tck_done"
    /\ UNCHANGED <<ledgerVars, tckVars, demoVars, pluginVars>>

\* all_scenarios = [] and os.walk(tck_features_dir) starts at the root
StartWalk ==
    /\ pc = "tck_start"
    /\ corpus.exists
    /\ all_scenarios' = <<>>
    /\ dir_stack' = << {<<>>} >>
    /\ cur_files' = {}
    /\ pc' = "walking"
    /\ UNCHANGED <<corpus, walked, parsed, summary, manifest_json,
                   manifest_csv, run, prev_json, prev_csv,
                   prev_corpus>>
    /\ UNCHANGED <<exit_code, stdout, ledgerVars, demoVars, pluginVars>>

\* os.walk yields the next directory: any of the subdirectories of the
\* innermost directory that still has some, in the order the operating
\* system lists them; its own subdirectories come next
YieldDirectory ==
    /\ pc = "walking"
    /\ cur_files = {}
    /\ Len(dir_stack) > 0
    /\ \E d \in dir_stack[Len(dir_stack)] :
          /\ cur_files' = FilesIn(d)
          /\ dir_stack' =
                SubSeq(dir_stack, 1, Len(dir_stack) - 1)
                  \o (IF dir_stack[Len(dir_stack)] = {d} THEN <<>>
                      ELSE <<dir_stack[Len(dir_stack)] \ {d}>>)
                  \o (IF Subdirs(d) = {} THEN <<>> ELSE <<Subdirs(d)>>)
    /\ UNCHANGED <<corpus, walked, parsed, all_scenarios, summary,
                   manifest_json, manifest_csv, run, prev_json, prev_csv,
                   prev_corpus>>
    /\ UNCHANGED <<pc, exit_code, stdout, ledgerVars, demoVars, pluginVars>>

\* for file in files, in the order listed: a name that does not end in
\* .feature is passed over
SkipFile ==
    /\ pc = "walking"
    /\ \E f \in cur_files :
          /\ ~endswith(f.name, FeatureExt)
          /\ cur_files' = cur_files \ {f}
    /\ UNCHANGED <<corpus, dir_stack, walked, parsed, all_scenarios, summary,
                   manifest_json, manifest_csv, run, prev_json, prev_csv,
                   prev_corpus>>
    /\ UNCHANGED <<pc, exit_code, stdout, ledgerVars, demoVars, pluginVars>>

\* scenarios = parse_feature_file(file_path); all_scenarios.extend(scenarios)
VisitFeatureFile ==
    /\ pc = "walking"
    /\ \E f \in cur_files :
          /\ endswith(f.name, FeatureExt)
          /\ ~parse_feature_file_raises(f)
          /\ all_scenarios' = all_scenarios \o parse_feature_file(f)
          /\ walked' = Append(walked, relative_path(f.dir, f.name))
          /\ cur_files' = cur_files \ {f}
    /\ UNCHANGED <<corpus, dir_stack, parsed, summary, manifest_json,
                   manifest_csv, run, prev_json, prev_csv,
                   prev_corpus>>
    /\ UNCHANGED <<pc, exit_code, stdout, ledgerVars, demoVars, pluginVars>>

\* except Exception as e: print(f"Error processing {file_path}: {e}")
VisitFeatureFileError ==
    /\ pc = "walking"
    /\ \E f \in cur_files :
          /\ endswith(f.name, FeatureExt)
          /\ parse_feature_file_raises(f)
          /\ stdout' = Append(stdout, "Error processing")
          /\ walked' = Append(walked, relative_path(f.dir, f.name))
          /\ cur_files' = cur_files \ {f}
    /\ UNCHANGED <<corpus, dir_stack, parsed, all_scenarios, summary,
                   manifest_json, manifest_csv, run, prev_json, prev_csv,
                   prev_corpus>>
    /\ UNCHANGED <<pc, exit_code, ledgerVars, demoVars, pluginVars>>

\* the walk is over: commit_info, scenarios_by_area, summary
BuildSummary ==
    /\ pc = "walking"
    /\ cur_files = {}
    /\ Len(dir_stack) = 0
    /\ summary' = Summary(all_scenarios)
    /\ pc' = "summarised"
    /\ UNCHANGED <<corpus, dir_stack, cur_files, walked, parsed, all_scenarios,
                   manifest_json, manifest_csv, run, prev_json, prev_csv,
                   prev_corpus>>
    /\ UNCHANGED <<exit_code, stdout, ledgerVars, demoVars, pluginVars>>

\* with open('tck_scenarios_manifest.json', 'w') as f: json.dump(...)
WriteJson ==
    /\ pc = "summarised"
    /\ manifest_json' = JsonManifest(summary)
    /\ pc' = "json_written"
    /\ UNCHANGED <<corpus, dir_stack, cur_files, walked, parsed, all_scenarios,
                   summary, manifest_csv, run, prev_json, prev_csv,
                   prev_corpus>>
    /\ UNCHANGED <<exit_code, stdout, ledgerVars, demoVars, pluginVars>>

\* with open('tck_scenarios_manifest.csv', 'w', newline='') as f: the header
\* row, then a row for each scenario of sorted(all_scenarios, key=...)
WriteCsv ==
    /\ pc = "json_written"
    /\ manifest_csv' = CsvManifest(all_scenarios)
    /\ pc' = "csv_written"
    /\ UNCHANGED <<corpus, dir_stack, cur_files, walked, parsed, all_scenarios,
                   summary, manifest_json, run, prev_json, prev_csv,
                   prev_corpus>>
    /\ UNCHANGED <<exit_code, stdout, ledgerVars, demoVars, pluginVars>>

\* tck_scenarios_manifest.json after a write that failed once the file was
\* open: open(..., 'w') has emptied it and it holds no complete document
TruncatedJson == [exists |-> TRUE, truncated |-> TRUE]

\* open('tck_scenarios_manifest.json', 'w') raises and the file is as it was,
\* or a write of json.dump raises; nothing catches it and main ends there
WriteJsonRaise ==
    /\ pc = "summarised"
    /\ manifest_json' \in {manifest_json, TruncatedJson}
    /\ exit_code' = 1
    /\ pc' = "tck_failed"
    /\ UNCHANGED <<corpus, dir_stack, cur_files, walked, parsed, all_scenarios,
                   summary, manifest_csv, run, prev_json, prev_csv,
                   prev_corpus>>
    /\ UNCHANGED <<stdout, ledgerVars, demoVars, pluginVars>>

\* tck_scenarios_manifest.csv after a write that failed once the file was
\* open: the header row and the rows written until then
CsvPrefix(all, k) ==
    [exists |-> TRUE,
     header |-> CsvHeader,
     rows |-> SubSeq(CsvManifest(all).rows, 1, k)]

\* open('tck_scenarios_manifest.csv', 'w', newline='') raises and the file is
\* as it was, or a writerow raises; nothing catches it and main ends there
WriteCsvRaise ==
    /\ pc = "json_written"
    /\ manifest_csv' \in
          {manifest_csv}
            \cup {CsvPrefix(all_scenarios, k) : k \in 0..(Len(all_scenarios) - 1)}
    /\ exit_code' = 1
    /\ pc' = "tck_failed"
    /\ UNCHANGED <<corpus, dir_stack, cur_files, walked, parsed, all_scenarios,
                   summary, manifest_json, run, prev_json, prev_csv,
                   prev_corpus>>
    /\ UNCHANGED <<stdout, ledgerVars, demoVars, pluginVars>>

\* the printed summary; main returns
PrintSummary ==
    /\ pc = "csv_written"
    /\ stdout' = Append(stdout, "Output files generated:")
    /\ exit_code' = 0
    /\ pc' = "tck_done"
    /\ UNCHANGED <<ledgerVars, tckVars, demoVars, pluginVars>>

\* the corpus when the builder is started again: as it was, or with one of
\* its documents removed since, or with the corpus root removed
LaterCorpora(c) ==
    {c} \cup {[exists |-> TRUE, files |-> c.files \ {f}] : f \in c.files}
        \cup {[exists |-> FALSE, files |-> {}]}

\* the builder is started again
RunAgain ==
    /\ pc = "tck_done"
    /\ corpus.exists
    /\ run < MaxRuns
    /\ run' = run + 1
    /\ corpus' \in LaterCorpora(corpus)
    /\ prev_corpus' = corpus
    /\ prev_json' = manifest_json
    /\ prev_csv' = manifest_csv
    /\ walked' = <<>>
    /\ all_scenarios' = <<>>
    /\ summary' = NoSummary
    /\ stdout' = <<>>
    /\ exit_code' = -1
    /\ pc' = "tck_start"
    /\ UNCHANGED <<dir_stack, cur_files, parsed, manifest_json,
                   manifest_csv, ledgerVars, demoVars, pluginVars>>

NextManifest ==
    \/ MissingRoot \/ StartWalk
    \/ YieldDirectory \/ SkipFile \/ VisitFeatureFile \/ VisitFeatureFileError
    \/ BuildSummary \/ WriteJson \/ WriteJsonRaise \/ WriteCsv \/ WriteCsvRaise
    \/ PrintSummary
    \/ RunAgain

SpecManifest == InitManifest /\ [][NextManifest]_vars

(***************************************************************************)
(* What the properties of the parser read off a state.                     *)
(***************************************************************************)
\* parse_feature_file has returned
Parsed == pc = "parse_returned"

\* the lines of the model's documents that declare a scenario, and what
\* each declares
DeclarationLines == {ScenarioA, OutlineB, NamelessScenario}

Declared(line) ==
    IF line = ScenarioA THEN [type |-> "Scenario", name |-> <<"a">>]
    ELSE IF line = OutlineB THEN [type |-> "Scenario Outline", name |-> <<"b">>]
    ELSE [type |-> "Scenario", name |-> <<>>]

Declarations(lines) == SelectSeq(lines, LAMBDA l : l \in DeclarationLines)

\* the lines of the model's documents that have a phrase of each group
ParseIndicatorLines == {ThenSyntaxError, FailToParse}
RuntimeIndicatorLines ==
    {ThenResult, ThenResultFolded, ThenTypeError, ThenSyntaxError}
GraphSetupLines == {GivenEmptyGraph}

HasLineOf(lines, group) == \E k \in 1..Len(lines) : lines[k] \in group

\* the name of a file without its extension
Stem(name) == SubSeq(name, 1, Len(name) - Len(FeatureExt))

\* the segments of a file's path, extension stripped, joined by `-`, then
\* `-` and the two-digit index k
IdOfPathAndIndex(f, k) ==
    Join(Append(f.dir, Stem(f.name)), <<"-">>) \o <<"-">> \o TwoDigits(k)

\* the segments of a file's relative path
Segments(f) == Append(f.dir, f.name)

(***************************************************************************)
(* C11.  parse_feature_file returns one record for each declaration line   *)
(* of the document (`Scenario:` or `Scenario Outline:` after two spaces),  *)
(* in document order, the k-th with the type and the name of the k-th      *)
(* declaration.                                                            *)
(***************************************************************************)
C11_OneRecordPerDeclaration ==
    Parsed =>
        LET declared == Declarations(TheFile.lines)
        IN  /\ Len(parsed) = Len(declared)
            /\ \A k \in 1..Len(parsed) :
                  /\ parsed[k].scenario_type = Declared(declared[k]).type
                  /\ parsed[k].scenario_name = Declared(declared[k]).name

(***************************************************************************)
(* C14.  The scenario_id of the k-th scenario of a document is the         *)
(* document's relative path with the feature extension stripped and the    *)
(* segments joined by `-`, then `-` and k padded to two digits.            *)
(***************************************************************************)
C14_IdFromPathAndIndex ==
    Parsed =>
        \A k \in 1..Len(parsed) :
            parsed[k].scenario_id = IdOfPathAndIndex(TheFile, k)

(***************************************************************************)
(* C15 as claimed.  language_area is the first path segment alone when the *)
(* path has fewer than two segments beyond the leaf, and the first and the *)
(* second segment joined by `.` otherwise, at every depth (a leaf directly *)
(* under the corpus root included).                                        *)
(***************************************************************************)
C15_FirstSegmentOrPair ==
    Parsed =>
        \A k \in 1..Len(parsed) :
            parsed[k].language_area =
                IF Len(TheFile.dir) < 2 THEN Segments(TheFile)[1]
                ELSE TheFile.dir[1] \o <<".">> \o TheFile.dir[2]

(***************************************************************************)
(* C15 as amended.  language_area is "unknown" for a document directly     *)
(* under the corpus root, the name of its directory for a document one     *)
(* directory deep, and the first and the second directory joined by `.`    *)
(* for a document two or more directories deep.                            *)
(***************************************************************************)
C15_AreaByDepth ==
    Parsed =>
        \A k \in 1..Len(parsed) :
            parsed[k].language_area =
                IF Len(TheFile.dir) = 0 THEN Unknown
                ELSE IF Len(TheFile.dir) = 1 THEN TheFile.dir[1]
                ELSE TheFile.dir[1] \o <<".">> \o TheFile.dir[2]

\* the scenarios of a document directly under the corpus root
C15_Witness ==
    /\ Parsed
    /\ Len(TheFile.dir) = 0
    /\ Len(parsed) >= 2
    /\ parsed[2].language_area = Unknown

(***************************************************************************)
(* C16.  Precedence: when the text of a document has a parse/validate-only *)
(* indicator, every scenario of the document has requires_runtime false,   *)
(* whichever runtime indicators or graph-setup phrases the text has too.   *)
(***************************************************************************)
C16_ParseIndicatorWins ==
    (Parsed /\ HasLineOf(TheFile.lines, ParseIndicatorLines)) =>
        \A k \in 1..Len(parsed) : ~parsed[k].requires_runtime

\* a document with "Then the result should be" and "should fail to parse"
C16_Witness ==
    /\ Parsed
    /\ HasLineOf(TheFile.lines, {ThenResult})
    /\ HasLineOf(TheFile.lines, {FailToParse})
    /\ Len(parsed) >= 1
    /\ ~parsed[1].requires_runtime

(***************************************************************************)
(* C17.  requires_runtime is true exactly when the text has no             *)
(* parse/validate-only indicator and has a runtime indicator or a          *)
(* graph-setup/query-execution phrase; a text with none of the three is    *)
(* classified false, and classifying a readable document raises nothing.   *)
(***************************************************************************)
C17_RuntimeClassification ==
    /\ Parsed =>
          \A k \in 1..Len(parsed) :
              parsed[k].requires_runtime <=>
                  /\ ~HasLineOf(TheFile.lines, ParseIndicatorLines)
                  /\ \/ HasLineOf(TheFile.lines, RuntimeIndicatorLines)
                     \/ HasLineOf(TheFile.lines, GraphSetupLines)
    /\ pc = "parse_raised" => ~TheFile.readable

\* a scenario of a document with none of the phrases
C17_Witness ==
    /\ Parsed
    /\ TheFile.lines = <<ScenarioA, AndHavingExecuted>>
    /\ Len(parsed) = 1
    /\ ~parsed[1].requires_runtime

(***************************************************************************)
(* What the properties of the manifest builder read off a state.           *)
(***************************************************************************)
\* this run has finished on an existing corpus
Built == pc = "tck_done" /\ corpus.exists

\* the feature documents of the corpus
FeatureFiles == {f \in corpus.files : endswith(f.name, FeatureExt)}

\* how many elements of a sequence satisfy Test
Count(s, Test(_)) == Cardinality({i \in 1..Len(s) : Test(s[i])})

\* all the scenario records of the structured manifest, group after group
RECURSIVE Flatten(_)
Flatten(groups) ==
    IF Len(groups) = 0 THEN <<>>
    ELSE Head(groups)[2] \o Flatten(Tail(groups))

\* the first place of an area in a list of scenarios
FirstOf(all, area) ==
    Nth({i \in 1..Len(all) : all[i].language_area = area}, 1)

(***************************************************************************)
(* C12.  Within one manifest scenario_id is unique: two rows of the        *)
(* tabular manifest (which are scenarios that differ in document path or   *)
(* in occurrence index) never have the same scenario_id.                   *)
(***************************************************************************)
C12_UniqueScenarioIds ==
    manifest_csv.exists =>
        \A i, j \in 1..Len(manifest_csv.rows) :
            i # j => manifest_csv.rows[i][1] # manifest_csv.rows[j][1]

(***************************************************************************)
(* C13.  Extraction is deterministic: a second run of the builder over the *)
(* unchanged corpus leaves both manifests exactly as the first run wrote   *)
(* them, whatever order each walk took.                                    *)
(***************************************************************************)
C13_Deterministic ==
    (Built /\ run > 1 /\ corpus = prev_corpus) =>
        /\ manifest_json = prev_json
        /\ manifest_csv = prev_csv

(***************************************************************************)
(* C18.  In the structured manifest every extracted scenario is in exactly *)
(* one group of scenarios_by_area, the group of its own language_area; the *)
(* groups together hold exactly the scenarios of the full list; groups are *)
(* in order of first occurrence and each group is in extraction order.     *)
(***************************************************************************)
C18_GroupedByArea ==
    (pc \in {"json_written", "csv_written"} \/ Built) =>
        LET groups == manifest_json.scenarios_by_area
        IN  /\ \A g, h \in 1..Len(groups) : groups[g][1] = groups[h][1] => g = h
            /\ \A g \in 1..Len(groups) :
                  /\ Len(groups[g][2]) > 0
                  /\ groups[g][2] =
                        SelectSeq(all_scenarios,
                                  LAMBDA s : s.language_area = groups[g][1])
            /\ \A i \in 1..Len(all_scenarios) :
                  \E g \in 1..Len(groups) :
                      groups[g][1] = all_scenarios[i].language_area
            /\ Len(Flatten(groups)) = Len(all_scenarios)
            /\ \A g, h \in 1..Len(groups) :
                  g < h => FirstOf(all_scenarios, groups[g][1])
                              < FirstOf(all_scenarios, groups[h][1])

\* a manifest with two groups, one of them with scenarios of two documents
C18_Witness ==
    /\ Built
    /\ Len(manifest_json.scenarios_by_area) >= 2
    /\ \E g \in 1..Len(manifest_json.scenarios_by_area) :
          LET group == manifest_json.scenarios_by_area[g][2]
          IN  \E i, j \in 1..Len(group) : group[i].file_path # group[j].file_path

(***************************************************************************)
(* C19.  The tabular manifest has one data row for each extracted scenario *)
(* (the scenarios of the structured manifest of the same run), and its     *)
(* rows are in non-decreasing order of (language_area, scenario_id).       *)
(***************************************************************************)
C19_SortedRows ==
    (pc = "csv_written" \/ Built) =>
        LET rows == manifest_csv.rows
            structured == Flatten(manifest_json.scenarios_by_area)
        IN  /\ Len(rows) = Len(all_scenarios)
            /\ Len(rows) = Len(structured)
            /\ \A k \in 1..Len(rows) :
                  /\ Count(rows, LAMBDA r : r = rows[k])
                        = Count(all_scenarios, LAMBDA s : CsvRow(s) = rows[k])
                  /\ Count(rows, LAMBDA r : r = rows[k])
                        = Count(structured, LAMBDA s : CsvRow(s) = rows[k])
            /\ \A k \in 1..(Len(rows) - 1) :
                  \/ StrLess(rows[k][6], rows[k + 1][6])
                  \/ /\ rows[k][6] = rows[k + 1][6]
                     /\ ~StrLess(rows[k + 1][1], rows[k][1])

\* a tabular manifest of three or more rows that are not in the order of
\* the walk
C19_Witness ==
    /\ Built
    /\ Len(manifest_csv.rows) >= 3
    /\ \E k \in 1..Len(all_scenarios) :
          manifest_csv.rows[k] # CsvRow(all_scenarios[k])
    /\ manifest_csv.rows[1][6] # manifest_csv.rows[Len(manifest_csv.rows)][6]

(***************************************************************************)
(* C20.  When parsing a feature document raises during the walk, the walk  *)
(* goes on: the run visits every feature document, the failing document    *)
(* has no scenario in either manifest, every scenario of every other       *)
(* document is in both, and both manifests are written.                    *)
(***************************************************************************)
C20_WalkSurvivesBadDocument ==
    Built =>
        /\ \A f \in FeatureFiles :
              \E k \in 1..Len(walked) : walked[k] = relative_path(f.dir, f.name)
        /\ manifest_json.exists /\ manifest_csv.exists
        /\ \A f \in FeatureFiles :
              LET rel == relative_path(f.dir, f.name)
                  in_csv == Count(manifest_csv.rows, LAMBDA r : r[5] = rel)
                  in_json == Count(Flatten(manifest_json.scenarios_by_area),
                                   LAMBDA s : s.file_path = rel)
              IN  IF f.readable
                  THEN /\ in_csv = Len(parse_feature_file(f))
                       /\ in_json = Len(parse_feature_file(f))
                       /\ \A i \in 1..Len(parse_feature_file(f)) :
                             \E k \in 1..Len(manifest_csv.rows) :
                                 manifest_csv.rows[k] = CsvRow(parse_feature_file(f)[i])
                  ELSE in_csv = 0 /\ in_json = 0

\* a finished run that met an unreadable document first and a readable one
\* after it
C20_Witness ==
    /\ Built
    /\ Len(walked) >= 2
    /\ \E f \in FeatureFiles :
          ~f.readable /\ walked[1] = relative_path(f.dir, f.name)
    /\ \E f \in FeatureFiles :
          f.readable /\ walked[2] = relative_path(f.dir, f.name)
    /\ Len(manifest_csv.rows) >= 1
    /\ Len(stdout) >= 2

(***************************************************************************)
(* What the properties of the feature name read off a document.            *)
(***************************************************************************)
\* the lines of the model's documents that declare a feature
FeatureDeclarationLines == {FeatureLine, OtherFeatureLine, NamelessFeature}

\* the title a `Feature:` line gives: its text after the colon, stripped
TitleOf(line) == Strip(SubSeq(line, Len(FeaturePrefix) + 1, Len(line)))

FeatureDeclarations(lines) ==
    SelectSeq(lines, LAMBDA l : l \in FeatureDeclarationLines)

(***************************************************************************)
(* C21.  Every record parse_feature_file returns carries as feature_name   *)
(* the sentinel "Unknown" when the document has no `Feature:` line, and    *)
(* the title of the document's first `Feature:` line when it has one.      *)
(***************************************************************************)
C21_FeatureNameOrSentinel ==
    Parsed =>
        LET features == FeatureDeclarations(TheFile.lines)
        IN  \A k \in 1..Len(parsed) :
                parsed[k].feature_name =
                    IF Len(features) = 0 THEN <<"Unknown">>
                    ELSE TitleOf(features[1])

(***************************************************************************)
(* What the properties of successive runs read off a state.                *)
(***************************************************************************)
\* the elements of a sequence
Range(s) == {s[k] : k \in 1..Len(s)}

\* the scenario records the documents of a corpus give
Extracted(c) ==
    UNION {Range(parse_feature_file(f)) :
              f \in {g \in c.files : /\ endswith(g.name, FeatureExt)
                                     /\ ~parse_feature_file_raises(g)}}

\* the scenario records a structured manifest holds, and the rows they
\* would make in a tabular manifest
JsonScenarios(m) == Range(Flatten(m.scenarios_by_area))

RowsOf(records) == {CsvRow(s) : s \in records}

(***************************************************************************)
(* C22.  When a run of the builder has completed, each manifest file holds *)
(* exactly the scenarios extracted from the corpus as that run found it,   *)
(* once each: nothing of what an earlier run wrote is left in either file. *)
(***************************************************************************)
C22_SupersedesPrevious ==
    Built =>
        /\ JsonScenarios(manifest_json) = Extracted(corpus)
        /\ Len(Flatten(manifest_json.scenarios_by_area))
              = Cardinality(Extracted(corpus))
        /\ Range(manifest_csv.rows) = RowsOf(Extracted(corpus))
        /\ Len(manifest_csv.rows) = Cardinality(Extracted(corpus))

\* a second run has completed after a document with scenarios was removed:
\* the manifests of the run before held scenarios the corpus no longer has
C22_Witness ==
    /\ Built
    /\ run > 1
    /\ prev_json.exists
    /\ prev_csv.exists
    /\ Extracted(corpus) # {}
    /\ JsonScenarios(prev_json) \ Extracted(corpus) # {}
    /\ Range(prev_csv.rows) \ RowsOf(Extracted(corpus)) # {}

(***************************************************************************)
(* C23.  All the records parse_feature_file returns for one document have  *)
(* the same requires_runtime, and it is what check_requires_runtime gives  *)
(* for the document's text whatever scenario name it is handed: the name,  *)
(* the type and the place of a scenario do not enter the classification.   *)
(***************************************************************************)
C23_OneClassificationPerDocument ==
    Parsed =>
        /\ \A i, j \in 1..Len(parsed) :
              parsed[i].requires_runtime = parsed[j].requires_runtime
        /\ \A k \in 1..Len(parsed) :
              \A name \in {<<>>, <<"a">>, <<"b", " ">>, <<"Then">>} :
                  parsed[k].requires_runtime
                      = check_requires_runtime(Text(TheFile.lines), name)

\* a scenario with a graph-setup step and, after it, an outline with no
\* step at all: both are classified as needing the runtime
C23_Witness ==
    /\ Parsed
    /\ TheFile.lines = <<ScenarioA, GivenEmptyGraph, OutlineB>>
    /\ Len(parsed) = 2
    /\ parsed[1].scenario_type # parsed[2].scenario_type
    /\ parsed[1].scenario_name # parsed[2].scenario_name
    /\ parsed[1].requires_runtime
    /\ parsed[2].requires_runtime

(***************************************************************************)
(* What the properties of the area counts read off a state.                *)
(***************************************************************************)
\* the structured manifest of this run is on disk, whole
JsonWritten == pc \in {"json_written", "csv_written"} \/ Built

\* the sum of total_scenarios over the areas of language_areas
RECURSIVE SumOfTotals(_)
SumOfTotals(areas) ==
    IF Len(areas) = 0 THEN 0
    ELSE Head(areas)[2].total_scenarios + SumOfTotals(Tail(areas))

(***************************************************************************)
(* C24.  In the structured manifest language_areas and scenarios_by_area   *)
(* have the same areas; for every area runtime_execution is the number of  *)
(* the group's scenarios with requires_runtime, parse_validate_only the    *)
(* number of the others, their sum is total_scenarios and that is the size *)
(* of the group; and the totals of all areas add up to commit_info's       *)
(* total_scenarios.                                                        *)
(***************************************************************************)
C24_AreaCountsAddUp ==
    JsonWritten =>
        LET areas == manifest_json.language_areas
            groups == manifest_json.scenarios_by_area
        IN  /\ Len(areas) = Len(groups)
            /\ \A g \in 1..Len(areas) :
                  LET stats == areas[g][2]
                      group == groups[g][2]
                  IN  /\ areas[g][1] = groups[g][1]
                      /\ stats.runtime_execution
                            = Count(group, LAMBDA s : s.requires_runtime)
                      /\ stats.parse_validate_only
                            = Count(group, LAMBDA s : ~s.requires_runtime)
                      /\ stats.runtime_execution + stats.parse_validate_only
                            = stats.total_scenarios
                      /\ stats.total_scenarios = Len(group)
            /\ SumOfTotals(areas) = manifest_json.commit_info.total_scenarios

\* a manifest with two areas, one of them with scenarios that need the
\* runtime and a scenario that does not
C24_Witness ==
    /\ Built
    /\ Len(manifest_json.language_areas) = 2
    /\ \E g \in 1..2 :
          /\ manifest_json.language_areas[g][2].runtime_execution = 2
          /\ manifest_json.language_areas[g][2].parse_validate_only = 1
    /\ manifest_json.commit_info.total_scenarios > 3

(***************************************************************************)
(* C25.  When the corpus root does not exist the builder prints a message  *)
(* that says so and ends with an exit status other than zero.              *)
(***************************************************************************)
C25_MissingRootIsFatal ==
    (pc \in {"tck_done", "tck_failed"} /\ ~corpus.exists) =>
        /\ Len(stdout) > 0
        /\ stdout[Len(stdout)] = "Error: TCK features directory not found"
        /\ exit_code # 0

(***************************************************************************)
(* C28.  Wherever the builder stops (the printed summary, the missing      *)
(* corpus root, a write of one of the two files that raised) the two       *)
(* manifest files hold the same scenarios: both are absent, or the         *)
(* structured manifest is whole and the rows of the tabular manifest are   *)
(* the rows of its scenarios; and a start that finds no corpus root leaves *)
(* both files as they were.                                                *)
(***************************************************************************)
C28_ManifestsAgreeAtStop ==
    (pc \in {"tck_done", "tck_failed"}) =>
        /\ manifest_json.exists <=> manifest_csv.exists
        /\ manifest_json.exists =>
              /\ manifest_json # TruncatedJson
              /\ Range(manifest_csv.rows) = RowsOf(JsonScenarios(manifest_json))
              /\ Len(manifest_csv.rows)
                    = Len(Flatten(manifest_json.scenarios_by_area))
        /\ ~corpus.exists =>
              /\ manifest_json = prev_json
              /\ manifest_csv = prev_csv

(***************************************************************************)
(* What the properties of the recomputed block read off a state.           *)
(***************************************************************************)
\* the keys of the block update_statistics builds
StatisticsKeys ==
    {"total_scenarios", "passed", "failed", "skipped", "pending",
     "compliance_percentage"}

\* a statistics block edited by hand: a wrong counter and nothing else
HandEditedStats == [passed |-> 3]

\* ledgers with the scenario entries S and each kind of prior statistics
\* block: none, a stale one with an extra key, a hand-edited one, a block
\* that is no object
LedgersWith(S) ==
    { << <<"scenarios", S>> >>,
      << <<"statistics", StaleStats>>, <<"scenarios", S>> >>,
      << <<"scenarios", S>>, <<"statistics", HandEditedStats>> >>,
      << <<"statistics", NotAnObject>>, <<"scenarios", S>>, <<"source", "tck">> >> }

(***************************************************************************)
(* C26.  The block update_statistics leaves has the six keys it computes   *)
(* and no other, and it is the block update_statistics leaves in every     *)
(* ledger with the same scenario entries, whatever statistics block that   *)
(* ledger came with.                                                       *)
(***************************************************************************)
C26_FunctionOfScenarios ==
    (pc = "stats_once") =>
        /\ DOMAIN Statistics = StatisticsKeys
        /\ \A items \in LedgersWith(DictGet(cd0.items, "scenarios", <<>>)) :
              DictGet(update_statistics(items), "statistics", <<>>) = Statistics

\* update_statistics has run on a ledger that came with a stale block with
\* a key of its own, and on entries of which one passes and one does not
C26_Witness ==
    /\ pc = "stats_once"
    /\ DictHas(cd0.items, "statistics")
    /\ "note" \in DOMAIN DictGet(cd0.items, "statistics", <<>>)
    /\ Len(Scenarios) = 2
    /\ Statistics.passed = 1
    /\ Statistics.pending = 1

(***************************************************************************)
(* What the properties of the percentage read off a state.                 *)
(***************************************************************************)
\* x <= y for doubles that are 0.0 or positive
FloatLeq(x, y) ==
    \/ x = Zero
    \/ /\ y # Zero
       /\ \/ x.exp < y.exp
          \/ x.exp = y.exp /\ LeqBits(x.mant, y.mant)

Hundred == IntToFloat(100)

(***************************************************************************)
(* C27.  After update_statistics, compliance_percentage is a number from   *)
(* 0 to 100; it is 100 exactly when the ledger has entries and all of them *)
(* have the status `pass`, and 0 exactly when no entry has it.             *)
(***************************************************************************)
C27_PercentageRange ==
    Recomputed =>
        LET percentage == Statistics.compliance_percentage
            passing == WithStatus(Scenarios, "pass")
        IN  /\ FloatLeq(Zero, percentage)
            /\ FloatLeq(percentage, Hundred)
            /\ percentage = Hundred <=>
                  (Len(Scenarios) > 0 /\ passing = 1..Len(Scenarios))
            /\ percentage = Zero <=> passing = {}

\* a recomputed ledger of three entries of which two pass: the percentage
\* is neither 0 nor 100
C27_Witness ==
    /\ pc = "stats_once"
    /\ Len(Scenarios) = 3
    /\ Cardinality(WithStatus(Scenarios, "pass")) = 2
    /\ Statistics.compliance_percentage # Zero
    /\ Statistics.compliance_percentage # Hundred
    /\ FloatLeq(IntToFloat(66), Statistics.compliance_percentage)
    /\ FloatLeq(Statistics.compliance_percentage, IntToFloat(67))

(***************************************************************************)
(* main of scripts/demo_coverage_system.py, run where the tests directory  *)
(* exists.  It runs update_compliance.py as a child process (the actions   *)
(* of main above, on coverage.json), whatever the child's exit status, and *)
(* then reads coverage.json itself.                                        *)
(*                                                                         *)
(* demo_pc: demo_start -> subprocess -> loaded -> sampled -> status_shown  *)
(* -> listed -> demo_done, or from any of them to demo_failed when an      *)
(* exception is raised, which nothing in the demo catches.                 *)
(***************************************************************************)
\* most entries [:5] keeps in high_priority_pending
HighPriorityShown == 5

\* s.get(key) == value, for a value that is a string
HasValue(s, key, value) == key \in DOMAIN s /\ s[key] = value

\* [s for s in coverage['scenarios']
\*    if s.get('status') == 'pending' and s.get('priority') == 'high'][:5]
HighPriorityPending(scenarios) ==
    LET chosen == SelectSeq(scenarios,
                      LAMBDA s : /\ HasValue(s, "status", "pending")
                                 /\ HasValue(s, "priority", "high"))
    IN  SubSeq(chosen, 1,
               IF Len(chosen) < HighPriorityShown THEN Len(chosen)
               ELSE HighPriorityShown)

\* the groups whose first three scenarios the demo prints
sample_groups == <<"expressions.mathematical", "clauses.match", "expressions.string">>

\* the step of the demo at demo_pc raises
demo_raises(at) ==
    LET scenarios == DictGet(coverage.items, "scenarios", <<>>)
        stats == DictGet(coverage.items, "statistics", <<>>)
    IN  CASE at = "subprocess" ->
               \* open('coverage.json', 'r') or json.load raises
               load_raises(file)
          [] at = "loaded" ->
               \* coverage['scenarios'], s['feature_group'] for every entry,
               \* and the two fields printed of the first three of a group
               IF \/ coverage.kind # "dict"
                  \/ ~DictHas(coverage.items, "scenarios")
                  \/ \E i \in 1..Len(scenarios) :
                        \/ ~IsDict(scenarios[i])
                        \/ "feature_group" \notin DOMAIN scenarios[i]
               THEN TRUE
               ELSE \E g \in 1..Len(sample_groups) :
                        LET of_group ==
                                SelectSeq(scenarios,
                                    LAMBDA s : s.feature_group = sample_groups[g])
                        IN  \E i \in 1..Len(of_group) :
                               /\ i <= 3
                               /\ {"scenario_id", "unity_test_function"}
                                     \ DOMAIN of_group[i] # {}
          [] at = "sampled" ->
               \* coverage['statistics'], its counters, the divisions by
               \* stats['total_scenarios']
               IF \/ ~DictHas(coverage.items, "statistics")
                  \/ ~IsDict(stats)
                  \/ {"total_scenarios", "passed", "failed", "skipped", "pending"}
                        \ DOMAIN stats # {}
               THEN TRUE
               ELSE stats.total_scenarios = 0
          [] at = "status_shown" ->
               \* the two fields printed of every entry of the list
               \E i \in 1..Len(HighPriorityPending(scenarios)) :
                   "unity_test_function" \notin DOMAIN HighPriorityPending(scenarios)[i]
          [] OTHER -> FALSE

\* ledger entries as the demo expects them
DemoEntry(id, status, priority) ==
    [scenario_id |-> id, status |-> status, priority |-> priority,
     feature_group |-> "clauses.match", unity_test_function |-> "test_match"]

\* an entry that was never given a status
Unstarted(id) ==
    [scenario_id |-> id, priority |-> "high",
     feature_group |-> "clauses.match", unity_test_function |-> "test_match"]

DemoEntries ==
    { DemoEntry("S1", "pending", "high"), DemoEntry("S2", "pending", "low"),
      DemoEntry("S3", "pass", "high"), DemoEntry("S4", "fail", "high"),
      DemoEntry("S5", "blocked", "high"), Unstarted("S6"),
      [status |-> "pending", priority |-> "high", feature_group |-> "other"],
      [status |-> "pending"], NotAnObject }

\* a ledger with more pending high-priority entries than the demo shows,
\* a passing entry among them
LongLedger ==
    << DemoEntry("L1", "pending", "high"), DemoEntry("L2", "pass", "high"),
       DemoEntry("L3", "pending", "high"), DemoEntry("L4", "pending", "high"),
       DemoEntry("L5", "pending", "low"), DemoEntry("L6", "pending", "high"),
       DemoEntry("L7", "pending", "high"), DemoEntry("L8", "pending", "high") >>

\* coverage.json as the demo may find it
DemoFiles ==
    { NoFile, FileOf(<<OpenBrace>>), FileOf(<<ArrayText>>),
      FileOf(Dump(<< <<"statistics", StaleStats>> >>)),
      FileOf(Dump(<< <<"scenarios", LongLedger>> >>)) }
    \cup { FileOf(Dump(<< <<"scenarios", S>> >>)) :
              S \in SeqsUpTo(DemoEntries, MaxFileEntries) }

InitDemo ==
    /\ file \in DemoFiles
    /\ file0 = file
    /\ pc = "idle"
    /\ coverage_data = Unbound
    /\ cd0 = Unbound
    /\ written = 0
    /\ exit_code = -1
    /\ stdout = <<>>
    /\ stderr = ""
    /\ raised_in = "none"
    /\ opened_w = FALSE
    /\ runner = NoWrite
    /\ demo_pc = "demo_start"
    /\ coverage = Unbound
    /\ high_priority_pending = <<>>
    /\ TckIdle
    /\ PluginIdle

\* os.chdir('tests'); subprocess.run starts update_compliance.py
DemoRunUpdater ==
    /\ demo_pc = "demo_start"
    /\ demo_pc' = "subprocess"
    /\ pc' = "start"
    /\ UNCHANGED <<exit_code, stdout, coverage, high_priority_pending>>
    /\ UNCHANGED <<ledgerVars, tckVars, pluginVars>>

\* the child has ended; with open('coverage.json', 'r') as f: json.load(f)
DemoLoad ==
    /\ demo_pc = "subprocess"
    /\ pc = "done"
    /\ ~demo_raises(demo_pc)
    /\ coverage' = Load(file)
    /\ demo_pc' = "loaded"
    /\ UNCHANGED <<pc, exit_code, stdout, high_priority_pending>>
    /\ UNCHANGED <<ledgerVars, tckVars, pluginVars>>

\* 2. Sample Unity Test Function Mapping
DemoSamples ==
    /\ demo_pc = "loaded"
    /\ ~demo_raises(demo_pc)
    /\ demo_pc' = "sampled"
    /\ UNCHANGED <<pc, exit_code, stdout, coverage, high_priority_pending>>
    /\ UNCHANGED <<ledgerVars, tckVars, pluginVars>>

\* 3. Scenarios by Status
DemoStatus ==
    /\ demo_pc = "sampled"
    /\ ~demo_raises(demo_pc)
    /\ demo_pc' = "status_shown"
    /\ UNCHANGED <<pc, exit_code, stdout, coverage, high_priority_pending>>
    /\ UNCHANGED <<ledgerVars, tckVars, pluginVars>>

\* 4. High Priority Tests Needing Implementation
DemoHighPriority ==
    /\ demo_pc = "status_shown"
    /\ ~demo_raises(demo_pc)
    /\ high_priority_pending' =
          HighPriorityPending(DictGet(coverage.items, "scenarios", <<>>))
    /\ demo_pc' = "listed"
    /\ UNCHANGED <<pc, exit_code, stdout, coverage>>
    /\ UNCHANGED <<ledgerVars, tckVars, pluginVars>>

\* 5. Coverage by Feature Group, 6. Example Unity Test File, the last prints
DemoRest ==
    /\ demo_pc = "listed"
    /\ demo_pc' = "demo_done"
    /\ UNCHANGED <<pc, exit_code, stdout, coverage, high_priority_pending>>
    /\ UNCHANGED <<ledgerVars, tckVars, pluginVars>>

\* an exception leaves main: the demo ends with a traceback
DemoUncaught ==
    /\ demo_pc = "subprocess" => pc = "done"
    /\ demo_raises(demo_pc)
    /\ demo_pc' = "demo_failed"
    /\ UNCHANGED <<pc, exit_code, stdout, coverage, high_priority_pending>>
    /\ UNCHANGED <<ledgerVars, tckVars, pluginVars>>

NextDemo ==
    \/ DemoRunUpdater
    \/ LoadLedger \/ LoadRaise
    \/ Recompute \/ RecomputeRaise
    \/ OpenWrite \/ OpenWriteRaise
    \/ DumpChunk \/ DumpRaise \/ CloseWrite
    \/ PrintReport \/ HandleException
    \/ DemoLoad \/ DemoSamples \/ DemoStatus \/ DemoHighPriority \/ DemoRest
    \/ DemoUncaught

SpecDemo == InitDemo /\ [][NextDemo]_vars

(***************************************************************************)
(* What the properties of the demo read off a state.                       *)
(***************************************************************************)
\* the demo has built its list
Listed == demo_pc \in {"listed", "demo_done"}

\* what update_statistics counts as pending: no status, or one that is not
\* pass, fail or skip
CountedPending(s) == Get(s, "status", "pending") \notin {"pass", "fail", "skip"}

\* the first n elements of a sequence, or all of it
FirstN(s, n) == SubSeq(s, 1, IF Len(s) < n THEN Len(s) ELSE n)

(***************************************************************************)
(* C29.  The demo's high-priority list is the first five entries of the    *)
(* ledger, in ledger order, that have priority `high` and that             *)
(* update_statistics counts as pending, entries with no status or with an  *)
(* unrecognised one included; an entry with status `pass` is never in it.  *)
(***************************************************************************)
C29_ListAgreesWithStatistics ==
    Listed =>
        /\ high_priority_pending =
              FirstN(SelectSeq(DictGet(coverage.items, "scenarios", <<>>),
                               LAMBDA s : /\ CountedPending(s)
                                          /\ HasValue(s, "priority", "high")),
                     HighPriorityShown)
        /\ \A i \in 1..Len(high_priority_pending) :
              ~HasValue(high_priority_pending[i], "status", "pass")

(***************************************************************************)
(* prepare_connection of sqlite-utils-plugin/sqlite_utils_sqlite_graph.py. *)
(*                                                                         *)
(* pc: plugin_loop (the for loop over extension_paths, at path_index)      *)
(* -> plugin_returned, by the return after a load or after the warning.    *)
(***************************************************************************)
extension_paths ==
    <<"./build/libgraph.so", "./libgraph.so", "/usr/local/lib/libgraph.so",
      "/usr/lib/libgraph.so">>

\* which of the paths exist, and which of those sqlite loads without error
InitPlugin ==
    /\ present \in SUBSET {extension_paths[i] : i \in 1..Len(extension_paths)}
    /\ loadable \in SUBSET present
    /\ path_index = 1
    /\ loaded = <<>>
    /\ tried = <<>>
    /\ warned = FALSE
    /\ pc = "plugin_loop"
    /\ exit_code = -1
    /\ stdout = <<>>
    /\ LedgerIdle
    /\ TckIdle
    /\ DemoIdle

\* if os.path.exists(path): false, the loop goes to the next path
SkipMissingPath ==
    /\ pc = "plugin_loop"
    /\ path_index <= Len(extension_paths)
    /\ extension_paths[path_index] \notin present
    /\ path_index' = path_index + 1
    /\ UNCHANGED <<present, loadable, loaded, tried, warned>>
    /\ UNCHANGED <<pc, exit_code, stdout, ledgerVars, tckVars, demoVars>>

\* conn.enable_load_extension(True) or conn.load_extension(path) raises:
\* break in place of continue, the loop is left
LoadExtensionRaise_giving_up ==
    /\ pc = "plugin_loop"
    /\ path_index <= Len(extension_paths)
    /\ extension_paths[path_index] \in present \ loadable
    /\ tried' = Append(tried, extension_paths[path_index])
    /\ path_index' = Len(extension_paths) + 1
    /\ UNCHANGED <<present, loadable, loaded, warned>>
    /\ UNCHANGED <<pc, exit_code, stdout, ledgerVars, tckVars, demoVars>>

\* conn.enable_load_extension(True) or conn.load_extension(path) raises:
\* except Exception: continue
LoadExtensionRaise ==
    /\ pc = "plugin_loop"
    /\ path_index <= Len(extension_paths)
    /\ extension_paths[path_index] \in present \ loadable
    /\ tried' = Append(tried, extension_paths[path_index])
    /\ path_index' = path_index + 1
    /\ UNCHANGED <<present, loadable, loaded, warned>>
    /\ UNCHANGED <<pc, exit_code, stdout, ledgerVars, tckVars, demoVars>>

\* conn.load_extension(path) succeeds; return
LoadExtension ==
    /\ pc = "plugin_loop"
    /\ path_index <= Len(extension_paths)
    /\ extension_paths[path_index] \in present \cap loadable
    /\ tried' = Append(tried, extension_paths[path_index])
    /\ loaded' = Append(loaded, extension_paths[path_index])
    /\ pc' = "plugin_returned"
    /\ UNCHANGED <<present, loadable, path_index, warned>>
    /\ UNCHANGED <<exit_code, stdout, ledgerVars, tckVars, demoVars>>

\* the loop is over: click.echo("Warning: SQLite graph extension not
\* found. ...", err=True)
EchoWarning ==
    /\ pc = "plugin_loop"
    /\ path_index > Len(extension_paths)
    /\ warned' = TRUE
    /\ pc' = "plugin_returned"
    /\ UNCHANGED <<present, loadable, path_index, loaded, tried>>
    /\ UNCHANGED <<exit_code, stdout, ledgerVars, tckVars, demoVars>>

NextPlugin ==
    SkipMissingPath \/ LoadExtensionRaise \/ LoadExtension \/ EchoWarning

SpecPlugin == InitPlugin /\ [][NextPlugin]_vars

(***************************************************************************)
(* What the properties of the plugin read off a state.                     *)
(***************************************************************************)
\* the places in extension_paths of the paths that exist and load
Loading ==
    {i \in 1..Len(extension_paths) : extension_paths[i] \in present \cap loadable}

\* the place of the first of them, or the end of the list
LastTried ==
    IF Loading = {} THEN Len(extension_paths) ELSE Nth(Loading, 1)

(***************************************************************************)
(* C30.  prepare_connection never has more than one extension loaded, and  *)
(* when it has returned: the paths it handed to load_extension are the     *)
(* existing paths of extension_paths, in that order, up to and including   *)
(* the first that loads; that first one is the one extension loaded; and   *)
(* the warning was echoed exactly when no path was loaded.                 *)
(***************************************************************************)
C30_FirstLoadablePath ==
    /\ Len(loaded) <= 1
    /\ pc = "plugin_loop" => ~warned
    /\ pc = "plugin_returned" =>
          /\ tried = SelectSeq(SubSeq(extension_paths, 1, LastTried),
                               LAMBDA path : path \in present)
          /\ loaded = IF Loading = {} THEN <<>>
                      ELSE <<extension_paths[LastTried]>>
          /\ warned <=> loaded = <<>>

\* the first path is missing, the second exists and fails to load, the
\* third is loaded, and the fourth, which would load too, is not touched
C30_Witness ==
    /\ pc = "plugin_returned"
    /\ extension_paths[1] \notin present
    /\ tried = <<extension_paths[2], extension_paths[3]>>
    /\ loaded = <<extension_paths[3]>>
    /\ extension_paths[4] \in loadable
    /\ ~warned

=============================================================================
